---- MODULE Spec2Model ----
(***************************************************************************)
(* A model of the Monkey bytecode toolchain: the code package (opcode      *)
(* catalogue, Make, ReadOperands), the compiler (Compile and its helpers), *)
(* the parser and the REPL loop.                                           *)
(*                                                                         *)
(* Compile is a recursive Go method.  It is modelled as a machine with an  *)
(* explicit call stack (todo): one frame per active Compile call, holding  *)
(* the node, the position inside the case of the type switch (pc) and the  *)
(* locals of that case.  One action per case of the switch.                *)
(***************************************************************************)
EXTENDS Integers, Sequences, FiniteSets, TLC

VARIABLES
    ast,      \* the node handed to the top-level Compile call
    comp,     \* the Compiler struct (plus the history of emit calls)
    todo,     \* the call stack of Compile
    ret,      \* the error returned by the Compile call that returned last
    trace,    \* history: the calls and returns of Compile, in order
    ifDone,   \* history: one record per IfExpression whose case ran to its end
    phase,    \* "compile" while a top-level Compile call is running, then "done"
    run,      \* 1 in the first compilation of ast, 2 in the second
    firstRun, \* the outcome of the first compilation, once it is over
    parse,    \* the parser: its input and, once ParseProgram returned, its result
    repl,     \* the REPL loop: its position, its input and its session state
    str,      \* a call of Instructions.String(): its receiver, position and output
    lex       \* a lexer reading characters: its input, its fields and its tokens

vars == <<ast, comp, todo, ret, trace, ifDone, phase, run, firstRun, parse, repl, str, lex>>

\* what no case of Compile touches
outside == <<ast, run, firstRun, parse, repl, str, lex>>

(***************************************************************************)
(* Bounds of the model.                                                    *)
(***************************************************************************)
\* the length of the longest text of arbitrary characters given to the lexer
MaxInput == 3
\* the number of NextToken calls followed after the end of the text
MaxEOF == 2
\* the length of the longest byte sequence handed to Instructions.String()
MaxBytes == 3
\* the number of lines Instructions.String() writes before the model stops
\* following it
MaxOut == 5
\* the number of arguments of the widest call expression compiled
WideCall == 256

(***************************************************************************)
(* package code                                                            *)
(***************************************************************************)
OpConstant == 0
OpAdd == 1
OpPop == 2
OpSub == 3
OpMul == 4
OpDiv == 5
OpTrue == 6
OpFalse == 7
OpEqual == 8
OpNotEqual == 9
OpGreaterThan == 10
OpMinus == 11
OpBang == 12
OpJumpNotTruthy == 13
OpJump == 14
OpNull == 15
OpGetGlobal == 16
OpSetGlobal == 17
OpGetLocal == 18
OpSetLocal == 19
OpArray == 20
OpHash == 21
OpIndex == 22
OpCall == 23
OpReturnValue == 24
OpReturn == 25
OpGetBuiltin == 26
OpClosure == 27
OpGetFree == 28
OpCurrentClosure == 29

\* the keys of the definitions map
Opcodes == OpConstant .. OpCurrentClosure

\* definitions[op].Operandwidths
Operandwidths(op) ==
    CASE op \in {OpConstant, OpJumpNotTruthy, OpJump, OpGetGlobal, OpSetGlobal,
                 OpArray, OpHash} -> <<2>>
      [] op \in {OpGetLocal, OpSetLocal, OpCall, OpGetBuiltin, OpGetFree} -> <<1>>
      [] op = OpClosure -> <<2, 1>>
      [] OTHER -> <<>>

\* the sum of the first n elements of a sequence of numbers
RECURSIVE SumTo(_, _)
SumTo(s, n) == IF n = 0 THEN 0 ELSE SumTo(s, n - 1) + s[n]

\* binary.BigEndian.PutUint16(instruction[offset:], uint16(o)) and
\* instruction[offset] = byte(o): the conversion keeps the low bits only
PutOperand(o, width) ==
    IF width = 2 THEN <<(o % 65536) \div 256, o % 256>> ELSE <<o % 256>>

\* the flattening of a sequence of byte sequences
RECURSIVE Flatten(_)
Flatten(ss) == IF ss = <<>> THEN <<>> ELSE Head(ss) \o Flatten(Tail(ss))

\* Make: the opcode byte, then one field per declared width; a field with
\* no operand given stays zero (make([]byte, instructionLen))
Make(op, operands) ==
    IF op \notin Opcodes THEN <<>>
    ELSE LET ws == Operandwidths(op)
         IN <<op>> \o Flatten([i \in 1 .. Len(ws) |->
                 IF i <= Len(operands) THEN PutOperand(operands[i], ws[i])
                 ELSE PutOperand(0, ws[i])])

\* the length of an instruction: the opcode byte and its operand fields
InstructionLen(op) == 1 + SumTo(Operandwidths(op), Len(Operandwidths(op)))

\* ReadUint16 / ReadUint8 at a 0-based offset of ins
ReadUint16(ins, offset) == ins[offset + 1] * 256 + ins[offset + 2]
ReadUint8(ins, offset) == ins[offset + 1]

\* ReadOperands(def, ins): the operands and the number of bytes read
ReadOperands(op, ins) ==
    LET ws == Operandwidths(op)
    IN [operands |-> [i \in 1 .. Len(ws) |->
                        IF ws[i] = 2 THEN ReadUint16(ins, SumTo(ws, i - 1))
                        ELSE ReadUint8(ins, SumTo(ws, i - 1))],
        read |-> SumTo(ws, Len(ws))]

\* ins[from:] and ins[:to] of Go, 0-based
SliceFrom(ins, from) == SubSeq(ins, from + 1, Len(ins))
SliceTo(ins, to) == SubSeq(ins, 1, to)

\* Lookup(op): whether definitions has the opcode
Lookup(op) == op \in Opcodes

(***************************************************************************)
(* package ast: the nodes, as records.  A node that a failed parse leaves  *)
(* nil is NilNode.                                                         *)
(***************************************************************************)
NilNode == [kind |-> "nil"]
Program(stmts) == [kind |-> "Program", Statements |-> stmts]
BlockStatement(stmts) == [kind |-> "BlockStatement", Statements |-> stmts]
ExpressionStatement(e) == [kind |-> "ExpressionStatement", Expression |-> e]
LetStatement(name, value) == [kind |-> "LetStatement", Name |-> name, Value |-> value]
ReturnStatement(value) == [kind |-> "ReturnStatement", ReturnValue |-> value]
Identifier(name) == [kind |-> "Identifier", Value |-> name]
IntegerLiteral(v) == [kind |-> "IntegerLiteral", Value |-> v]
StringLiteral(s) == [kind |-> "StringLiteral", Value |-> s]
Boolean(b) == [kind |-> "Boolean", Value |-> b]
PrefixExpression(op, right) == [kind |-> "PrefixExpression", Operator |-> op, Right |-> right]
InfixExpression(op, left, right) ==
    [kind |-> "InfixExpression", Operator |-> op, Left |-> left, Right |-> right]
IfExpression(cond, cons, alt) ==
    [kind |-> "IfExpression", Condition |-> cond, Consequence |-> cons, Alternative |-> alt]
FunctionLiteral(name, params, body) ==
    [kind |-> "FunctionLiteral", Name |-> name, Parameters |-> params, Body |-> body]
CallExpression(fn, args) == [kind |-> "CallExpression", Function |-> fn, Arguments |-> args]
ArrayLiteral(els) == [kind |-> "ArrayLiteral", Elements |-> els]
\* Pairs is a Go map keyed by the key node's pointer: two keys that print
\* alike are two entries.  The sequence lists the entries in source order.
HashLiteral(pairs) == [kind |-> "HashLiteral", Pairs |-> pairs]
IndexExpression(left, index) == [kind |-> "IndexExpression", Left |-> left, Index |-> index]

(***************************************************************************)
(* package token and the lexer.  The source text is a sequence of lexemes  *)
(* (the maximal pieces NextToken cuts the text into); NextToken classifies *)
(* the next lexeme.                                                        *)
(***************************************************************************)
Token(type, literal) == [Type |-> type, Literal |-> literal]

\* the map keywords
keywords ==
    [w \in {"fn", "let", "true", "false", "if", "else", "return"} |->
        CASE w = "fn" -> "FUNCTION"
          [] w = "let" -> "LET"
          [] w = "true" -> "TRUE"
          [] w = "false" -> "FALSE"
          [] w = "if" -> "IF"
          [] w = "else" -> "ELSE"
          [] w = "return" -> "RETURN"]

LookupIdent(ident) == IF ident \in DOMAIN keywords THEN keywords[ident] ELSE "IDENT"

\* the operators and delimiters: the token type is the text
Symbols == {"=", "+", "-", "!", "*", "/", "<", ">", "==", "!=", ",", ";", ":",
            "(", ")", "{", "}", "[", "]"}

\* the string literals of the model, with the text between the quotes
\* ("a without its closing quote: NextToken reads it to the end of the text)
StringLexemes ==
    [w \in {"\"a\"", "\"b\"", "\"a"} |-> IF w = "\"b\"" THEN "b" ELSE "a"]

\* the digit runs of the model
IntLexemes == {"0", "1", "2", "3", "08"}

\* a character NextToken has no case for
IllegalLexemes == {"@"}

\* the token NextToken makes of a lexeme
Lexeme(w) ==
    IF w \in Symbols THEN Token(w, w)
    ELSE IF w \in DOMAIN StringLexemes THEN Token("STRING", StringLexemes[w])
    ELSE IF w \in IntLexemes THEN Token("INT", w)
    ELSE IF w \in IllegalLexemes THEN Token("ILLEGAL", w)
    ELSE Token(LookupIdent(w), w)

\* lexer.New(input)
LexerNew(input) == [input |-> input, position |-> 0]

\* NextToken(): the lexer after the call and the token; EOF from the end on
NextToken(l) ==
    IF l.position >= Len(l.input) THEN [l |-> l, tok |-> Token("EOF", "")]
    ELSE [l |-> [l EXCEPT !.position = @ + 1], tok |-> Lexeme(l.input[l.position + 1])]

(***************************************************************************)
(* package parser.  A parse function takes the parser and returns the      *)
(* parser after the call and the node (NilNode for a nil interface).       *)
(***************************************************************************)
LOWEST == 1
EQUALS == 2
LESSGREATER == 3
SUM == 4
PRODUCT == 5
PREFIX == 6
CALL == 7
INDEX == 8

\* the map precedences, LOWEST for a token type it does not hold
precedences(t) ==
    CASE t \in {"==", "!="} -> EQUALS
      [] t \in {"<", ">"} -> LESSGREATER
      [] t \in {"+", "-"} -> SUM
      [] t \in {"/", "*"} -> PRODUCT
      [] t = "(" -> CALL
      [] t = "[" -> INDEX
      [] OTHER -> LOWEST

peekPrecedence(p) == precedences(p.peekToken.Type)
curPrecedence(p) == precedences(p.curToken.Type)

\* the token types with a registered prefix and infix parse function
PrefixTokens == {"IDENT", "INT", "TRUE", "FALSE", "STRING", "!", "-", "(", "IF",
                 "FUNCTION", "[", "{"}
InfixTokens == {"+", "-", "/", "*", "==", "!=", "<", ">", "(", "["}

\* p.curToken = p.peekToken; p.peekToken = n.tok, the lexer having moved on
\* read is history: the number of calls that moved curToken on to a later
\* token (after EOF there is none)
Advance(p, n) ==
    [p EXCEPT !.curToken = p.peekToken, !.peekToken = n.tok, !.l = n.l,
              !.read = IF p.curToken.Type # "EOF" THEN @ + 1 ELSE @]

nextToken(p) == Advance(p, NextToken(p.l))

\* parser.New(l)
ParserNew(l) ==
    nextToken(nextToken([l |-> l, curToken |-> Token("", ""),
                         peekToken |-> Token("", ""), errors |-> <<>>,
                         read |-> 0, stuck |-> FALSE]))

\* history: the parser q with which a loop starts its next iteration, the
\* iteration having started with p.  stuck records an iteration that did
\* not move curToken on; a loop is followed no further once it is set
Again(p, q) == IF q.read > p.read THEN q ELSE [q EXCEPT !.stuck = TRUE]

curTokenIs(p, t) == p.curToken.Type = t
peekTokenIs(p, t) == p.peekToken.Type = t

peekError(p, t) ==
    [p EXCEPT !.errors = Append(@, <<"expected next token to be", t, p.peekToken.Type>>)]

noPrefixParseFnError(p, t) ==
    [p EXCEPT !.errors = Append(@, <<"no prefix parse function for", t>>)]

expectPeek(p, t) ==
    IF peekTokenIs(p, t) THEN [p |-> nextToken(p), ok |-> TRUE]
    ELSE [p |-> peekError(p, t), ok |-> FALSE]

\* the optional semicolon at the end of a statement
skipSemicolon(p) == IF peekTokenIs(p, ";") THEN nextToken(p) ELSE p

Parsed(p, node) == [p |-> p, node |-> node]
ParsedList(p, list) == [p |-> p, list |-> list]

\* strconv.ParseInt(literal, 0, 64) on a digit run: a leading 0 makes the
\* base 8, in which 8 is no digit
ParseInt(literal) ==
    CASE literal = "0" -> [value |-> 0, err |-> FALSE]
      [] literal = "1" -> [value |-> 1, err |-> FALSE]
      [] literal = "2" -> [value |-> 2, err |-> FALSE]
      [] literal = "3" -> [value |-> 3, err |-> FALSE]
      [] OTHER -> [value |-> 0, err |-> TRUE]

\* a nil *ast.LetStatement inside a Statement interface: not equal to nil
NilLetStatement == [kind |-> "nil *ast.LetStatement"]

\* a mutant of the naming step: the literal keeps its empty Name
KeepFunctionName(value, name) == value

\* if fl, ok := stmt.Value.(*ast.FunctionLiteral); ok { fl.Name = name }
SetFunctionName(value, name) ==
    IF value.kind = "FunctionLiteral" THEN [value EXCEPT !.Name = name] ELSE value

\* hash.Pairs[key] = value: a nil key is one key, every other key is a new
\* pointer
SetPair(pairs, key, value) ==
    IF key = NilNode /\ \E i \in 1 .. Len(pairs) : pairs[i].key = NilNode
    THEN [i \in 1 .. Len(pairs) |->
            IF pairs[i].key = NilNode THEN [key |-> key, value |-> value] ELSE pairs[i]]
    ELSE Append(pairs, [key |-> key, value |-> value])

\* Parser(fn, p, arg) is the call p.fn(arg) of a parse function from inside
\* another one; arg is <<>> for a function without a parameter
RECURSIVE Parser(_, _, _)

parseIdentifier(p) == Parsed(p, Identifier(p.curToken.Literal))

parseIntegerLiteral(p) ==
    LET r == ParseInt(p.curToken.Literal)
    IN IF r.err
       THEN Parsed([p EXCEPT !.errors =
                       Append(@, <<"could not parse as integer", p.curToken.Literal>>)],
                   NilNode)
       ELSE Parsed(p, IntegerLiteral(r.value))

parseBoolean(p) == Parsed(p, Boolean(curTokenIs(p, "TRUE")))

parseStringLiteral(p) == Parsed(p, StringLiteral(p.curToken.Literal))

parsePrefixExpression(p) ==
    LET r == Parser("parseExpression", nextToken(p), PREFIX)
    IN Parsed(r.p, PrefixExpression(p.curToken.Literal, r.node))

parseInfixExpression(p, left) ==
    LET r == Parser("parseExpression", nextToken(p), curPrecedence(p))
    IN Parsed(r.p, InfixExpression(p.curToken.Literal, left, r.node))

parseGroupedExpression(p) ==
    LET r == Parser("parseExpression", nextToken(p), LOWEST)
        e == expectPeek(r.p, ")")
    IN IF e.ok THEN Parsed(e.p, r.node) ELSE Parsed(e.p, NilNode)

parseIfExpression(p) ==
    LET e1 == expectPeek(p, "(")
        c == Parser("parseExpression", nextToken(e1.p), LOWEST)
        e2 == expectPeek(c.p, ")")
        e3 == expectPeek(e2.p, "{")
        cons == Parser("parseBlockStatement", e3.p, <<>>)
        e4 == expectPeek(nextToken(cons.p), "{")
        alt == Parser("parseBlockStatement", e4.p, <<>>)
    IN IF ~e1.ok THEN Parsed(e1.p, NilNode)
       ELSE IF ~e2.ok THEN Parsed(e2.p, NilNode)
       ELSE IF ~e3.ok THEN Parsed(e3.p, NilNode)
       ELSE IF ~peekTokenIs(cons.p, "ELSE")
       THEN Parsed(cons.p, IfExpression(c.node, cons.node, NilNode))
       ELSE IF ~e4.ok THEN Parsed(e4.p, NilNode)
       ELSE Parsed(alt.p, IfExpression(c.node, cons.node, alt.node))

\* the loop of parseFunctionParameters: one more identifier per comma
RECURSIVE ParametersLoop(_, _)
ParametersLoop(p, identifiers) ==
    IF ~p.stuck /\ peekTokenIs(p, ",")
    THEN LET q == Again(p, nextToken(nextToken(p)))
         IN ParametersLoop(q, Append(identifiers, Identifier(q.curToken.Literal)))
    ELSE ParsedList(p, identifiers)

\* a nil slice is the empty list
parseFunctionParameters(p) ==
    IF peekTokenIs(p, ")") THEN ParsedList(nextToken(p), <<>>)
    ELSE LET q == nextToken(p)
             r == ParametersLoop(q, <<Identifier(q.curToken.Literal)>>)
             e == expectPeek(r.p, ")")
         IN IF e.ok THEN ParsedList(e.p, r.list) ELSE ParsedList(e.p, <<>>)

parseFunctionLiteral(p) ==
    LET e1 == expectPeek(p, "(")
        params == Parser("parseFunctionParameters", e1.p, <<>>)
        e2 == expectPeek(params.p, "{")
        body == Parser("parseBlockStatement", e2.p, <<>>)
    IN IF ~e1.ok THEN Parsed(e1.p, NilNode)
       ELSE IF ~e2.ok THEN Parsed(e2.p, NilNode)
       ELSE Parsed(body.p, FunctionLiteral("", params.list, body.node))

\* the loop of parseExpressionList: one more expression per comma
RECURSIVE ListLoop(_, _)
ListLoop(p, list) ==
    IF ~p.stuck /\ peekTokenIs(p, ",")
    THEN LET r == Parser("parseExpression", nextToken(nextToken(p)), LOWEST)
         IN ListLoop(Again(p, r.p), Append(list, r.node))
    ELSE ParsedList(p, list)

parseExpressionList(p, end) ==
    IF peekTokenIs(p, end) THEN ParsedList(nextToken(p), <<>>)
    ELSE LET first == Parser("parseExpression", nextToken(p), LOWEST)
             r == ListLoop(first.p, <<first.node>>)
             e == expectPeek(r.p, end)
         IN IF e.ok THEN ParsedList(e.p, r.list) ELSE ParsedList(e.p, <<>>)

parseArrayLiteral(p) ==
    LET r == Parser("parseExpressionList", p, "]") IN Parsed(r.p, ArrayLiteral(r.list))

parseCallExpression(p, function) ==
    LET r == Parser("parseExpressionList", p, ")")
    IN Parsed(r.p, CallExpression(function, r.list))

parseIndexExpression(p, left) ==
    LET r == Parser("parseExpression", nextToken(p), LOWEST)
        e == expectPeek(r.p, "]")
    IN IF e.ok THEN Parsed(e.p, IndexExpression(left, r.node)) ELSE Parsed(e.p, NilNode)

\* the loop of parseHashLiteral: the parser after it, the pairs, and
\* whether the loop ran to its end
RECURSIVE HashLoop(_, _)
HashLoop(p, pairs) ==
    IF p.stuck \/ peekTokenIs(p, "}") THEN [p |-> p, pairs |-> pairs, ok |-> TRUE]
    ELSE LET key == Parser("parseExpression", nextToken(p), LOWEST)
             e1 == expectPeek(key.p, ":")
             value == Parser("parseExpression", nextToken(e1.p), LOWEST)
             set == SetPair(pairs, key.node, value.node)
             e2 == expectPeek(value.p, ",")
         IN IF ~e1.ok THEN [p |-> e1.p, pairs |-> pairs, ok |-> FALSE]
            ELSE IF peekTokenIs(value.p, "}") THEN HashLoop(Again(p, value.p), set)
            ELSE IF ~e2.ok THEN [p |-> e2.p, pairs |-> set, ok |-> FALSE]
            ELSE HashLoop(Again(p, e2.p), set)

parseHashLiteral(p) ==
    LET r == HashLoop(p, <<>>)
        e == expectPeek(r.p, "}")
    IN IF ~r.ok THEN Parsed(r.p, NilNode)
       ELSE IF ~e.ok THEN Parsed(e.p, NilNode)
       ELSE Parsed(e.p, HashLiteral(r.pairs))

\* the map prefixParseFns, on the token types of PrefixTokens
prefixParseFns(t) ==
    CASE t = "IDENT" -> "parseIdentifier"
      [] t = "INT" -> "parseIntegerLiteral"
      [] t \in {"TRUE", "FALSE"} -> "parseBoolean"
      [] t = "STRING" -> "parseStringLiteral"
      [] t \in {"!", "-"} -> "parsePrefixExpression"
      [] t = "(" -> "parseGroupedExpression"
      [] t = "IF" -> "parseIfExpression"
      [] t = "FUNCTION" -> "parseFunctionLiteral"
      [] t = "[" -> "parseArrayLiteral"
      [] t = "{" -> "parseHashLiteral"

\* the map infixParseFns, on the token types of InfixTokens
infixParseFns(t) ==
    CASE t = "(" -> "parseCallExpression"
      [] t = "[" -> "parseIndexExpression"
      [] OTHER -> "parseInfixExpression"

\* the loop of parseExpression
RECURSIVE InfixLoop(_, _, _)
InfixLoop(p, precedence, leftExp) ==
    IF ~p.stuck /\ ~peekTokenIs(p, ";") /\ precedence < peekPrecedence(p)
    THEN IF p.peekToken.Type \notin InfixTokens THEN Parsed(p, leftExp)
         ELSE LET r == Parser(infixParseFns(p.peekToken.Type), nextToken(p), leftExp)
              IN InfixLoop(Again(p, r.p), precedence, r.node)
    ELSE Parsed(p, leftExp)

parseExpression(p, precedence) ==
    IF p.curToken.Type \notin PrefixTokens
    THEN Parsed(noPrefixParseFnError(p, p.curToken.Type), NilNode)
    ELSE LET left == Parser(prefixParseFns(p.curToken.Type), p, <<>>)
         IN InfixLoop(left.p, precedence, left.node)

parseLetStatement(p) ==
    LET e1 == expectPeek(p, "IDENT")
        name == Identifier(e1.p.curToken.Literal)
        e2 == expectPeek(e1.p, "=")
        value == Parser("parseExpression", nextToken(e2.p), LOWEST)
    IN IF ~e1.ok THEN Parsed(e1.p, NilLetStatement)
       ELSE IF ~e2.ok THEN Parsed(e2.p, NilLetStatement)
       ELSE Parsed(skipSemicolon(value.p),
                   LetStatement(name, SetFunctionName(value.node, name.Value)))

parseReturnStatement(p) ==
    LET value == Parser("parseExpression", nextToken(p), LOWEST)
    IN Parsed(skipSemicolon(value.p), ReturnStatement(value.node))

parseExpressionStatement(p) ==
    LET e == Parser("parseExpression", p, LOWEST)
    IN Parsed(skipSemicolon(e.p), ExpressionStatement(e.node))

parseStatement(p) ==
    CASE p.curToken.Type = "LET" -> Parser("parseLetStatement", p, <<>>)
      [] p.curToken.Type = "RETURN" -> Parser("parseReturnStatement", p, <<>>)
      [] OTHER -> Parser("parseExpressionStatement", p, <<>>)

\* a parser whose block loop does not look for EOF
RECURSIVE BlockLoopToBrace(_, _)
BlockLoopToBrace(p, statements) ==
    IF ~p.stuck /\ ~curTokenIs(p, "}")
    THEN LET stmt == Parser("parseStatement", p, <<>>)
         IN BlockLoopToBrace(Again(p, nextToken(stmt.p)),
                             IF stmt.node # NilNode THEN Append(statements, stmt.node)
                             ELSE statements)
    ELSE ParsedList(p, statements)

\* the loop of parseBlockStatement; a statement is appended unless the
\* interface is nil, which no parse function returns
RECURSIVE BlockLoop(_, _)
BlockLoop(p, statements) ==
    IF ~p.stuck /\ ~curTokenIs(p, "}") /\ ~curTokenIs(p, "EOF")
    THEN LET stmt == Parser("parseStatement", p, <<>>)
         IN BlockLoop(Again(p, nextToken(stmt.p)),
                      IF stmt.node # NilNode THEN Append(statements, stmt.node)
                      ELSE statements)
    ELSE ParsedList(p, statements)

parseBlockStatement(p) ==
    LET r == BlockLoop(nextToken(p), <<>>) IN Parsed(r.p, BlockStatement(r.list))

Parser(fn, p, arg) ==
    CASE fn = "parseExpression" -> parseExpression(p, arg)
      [] fn = "parseIdentifier" -> parseIdentifier(p)
      [] fn = "parseIntegerLiteral" -> parseIntegerLiteral(p)
      [] fn = "parseBoolean" -> parseBoolean(p)
      [] fn = "parseStringLiteral" -> parseStringLiteral(p)
      [] fn = "parsePrefixExpression" -> parsePrefixExpression(p)
      [] fn = "parseGroupedExpression" -> parseGroupedExpression(p)
      [] fn = "parseIfExpression" -> parseIfExpression(p)
      [] fn = "parseFunctionLiteral" -> parseFunctionLiteral(p)
      [] fn = "parseFunctionParameters" -> parseFunctionParameters(p)
      [] fn = "parseArrayLiteral" -> parseArrayLiteral(p)
      [] fn = "parseHashLiteral" -> parseHashLiteral(p)
      [] fn = "parseExpressionList" -> parseExpressionList(p, arg)
      [] fn = "parseCallExpression" -> parseCallExpression(p, arg)
      [] fn = "parseIndexExpression" -> parseIndexExpression(p, arg)
      [] fn = "parseInfixExpression" -> parseInfixExpression(p, arg)
      [] fn = "parseStatement" -> parseStatement(p)
      [] fn = "parseLetStatement" -> parseLetStatement(p)
      [] fn = "parseReturnStatement" -> parseReturnStatement(p)
      [] fn = "parseExpressionStatement" -> parseExpressionStatement(p)
      [] fn = "parseBlockStatement" -> parseBlockStatement(p)

\* the loop of ParseProgram
RECURSIVE ProgramLoop(_, _)

\* the rest of an iteration: append unless the interface is nil, nextToken
ProgramNext(p, stmt, statements) ==
    ProgramLoop(Again(p, nextToken(stmt.p)),
                IF stmt.node # NilNode THEN Append(statements, stmt.node)
                ELSE statements)

ProgramLoop(p, statements) ==
    IF ~p.stuck /\ p.curToken.Type # "EOF"
    THEN ProgramNext(p, Parser("parseStatement", p, <<>>), statements)
    ELSE ParsedList(p, statements)

\* program.Statements is the list the loop built
ProgramOf(r) == Parsed(r.p, Program(r.list))

ParseProgram(p) == ProgramOf(ProgramLoop(p, <<>>))

\* lexer.New, parser.New, ParseProgram and Errors on a source
Outcome(r) == [program |-> r.node, errors |-> r.p.errors, stuck |-> r.p.stuck,
               atEnd |-> r.p.curToken.Type = "EOF" /\ r.p.l.position = Len(r.p.l.input)]

ParseSource(source) == Outcome(ParseProgram(ParserNew(LexerNew(source))))

(***************************************************************************)
(* package object: the constants the compiler appends                      *)
(***************************************************************************)
Integer(v) == [type |-> "INTEGER", ival |-> v, sval |-> "", ins |-> <<>>,
               NumLocals |-> 0, NumParameters |-> 0]
String(s) == [type |-> "STRING", ival |-> 0, sval |-> s, ins |-> <<>>,
              NumLocals |-> 0, NumParameters |-> 0]
CompiledFunction(instructions, numLocals, numParameters) ==
    [type |-> "COMPILED_FUNCTION_OBJ", ival |-> 0, sval |-> "", ins |-> instructions,
     NumLocals |-> numLocals, NumParameters |-> numParameters]

\* object.Builtins, in registry order
Builtins == <<"len", "puts", "first", "last", "rest", "push">>

(***************************************************************************)
(* The symbol table.  symbolTable is the chain of tables from the          *)
(* outermost (element 1) to the one the compiler's cursor points at (the   *)
(* last element); Outer of element k is element k-1.                       *)
(***************************************************************************)
GlobalScope == "GLOBAL"
LocalScope == "LOCAL"
BuiltinScope == "BUILTIN"
FreeScope == "FREE"
FunctionScope == "FUNCTION"

Symbol(name, scope, index) == [Name |-> name, Scope |-> scope, Index |-> index]
NoSymbol == Symbol("", "", 0)

NewSymbolTable == [store |-> <<>>, numDefinitions |-> 0, FreeSymbols |-> <<>>]

\* store[name] = symbol
Store(table, symbol) ==
    [table EXCEPT !.store = [n \in (DOMAIN table.store) \cup {symbol.Name} |->
                                IF n = symbol.Name THEN symbol ELSE table.store[n]]]

\* the symbol Define(name) returns
DefinedSymbol(st, name) ==
    Symbol(name, IF Len(st) = 1 THEN GlobalScope ELSE LocalScope,
           st[Len(st)].numDefinitions)

\* Define(name): the chain after the call
Define(st, name) ==
    [st EXCEPT ![Len(st)] =
        [Store(@, DefinedSymbol(st, name)) EXCEPT !.numDefinitions = @ + 1]]

\* DefineBuiltin(index, name), on the outermost table
DefineBuiltin(st, index, name) ==
    [st EXCEPT ![1] = Store(@, Symbol(name, BuiltinScope, index))]

\* DefineFunctionName(name)
DefineFunctionName(st, name) ==
    [st EXCEPT ![Len(st)] = Store(@, Symbol(name, FunctionScope, 0))]

\* Resolve(name) from table k of the chain: the chain after the call (a
\* promotion records a free symbol in every table it crosses), the symbol
\* and whether the name was found
RECURSIVE Resolve(_, _, _)
Resolve(st, k, name) ==
    IF name \in DOMAIN st[k].store
    THEN [st |-> st, sym |-> st[k].store[name], ok |-> TRUE]
    ELSE IF k = 1
    THEN [st |-> st, sym |-> NoSymbol, ok |-> FALSE]
    ELSE LET r == Resolve(st, k - 1, name)
         IN IF ~r.ok THEN r
            ELSE IF r.sym.Scope \notin {LocalScope, FreeScope} THEN r
            ELSE LET free == Symbol(name, FreeScope, Len(r.st[k].FreeSymbols))
                 IN [st |-> [r.st EXCEPT ![k] =
                                [Store(@, free) EXCEPT !.FreeSymbols = Append(@, r.sym)]],
                     sym |-> free, ok |-> TRUE]

\* the table the REPL and New() build: every builtin defined
RECURSIVE WithBuiltins(_, _)
WithBuiltins(st, n) ==
    IF n = 0 THEN st
    ELSE DefineBuiltin(WithBuiltins(st, n - 1), n - 1, Builtins[n])

(***************************************************************************)
(* ast: String() of the nodes used as hash keys, as the sequence of the    *)
(* character codes of the printed form, and Go's < on strings.             *)
(***************************************************************************)
\* the character codes of the names and string literals of the model
Chars(s) ==
    CASE s = "a" -> <<97>>
      [] s = "b" -> <<98>>
      [] s = "ab" -> <<97, 98>>
      [] s = "x" -> <<120>>
      [] s = "y" -> <<121>>
      [] s = "f" -> <<102>>
      [] s = "len" -> <<108, 101, 110>>
      [] OTHER -> <<63>>

\* the decimal digits of a natural number
RECURSIVE Digits(_)
Digits(n) == IF n < 10 THEN <<48 + n>> ELSE Digits(n \div 10) \o <<48 + (n % 10)>>

\* node.String() of Identifier, IntegerLiteral, StringLiteral and Boolean
NodeString(node) ==
    CASE node.kind = "IntegerLiteral" -> Digits(node.Value)
      [] node.kind \in {"Identifier", "StringLiteral"} -> Chars(node.Value)
      [] node.kind = "Boolean" -> IF node.Value THEN <<116, 114, 117, 101>>
                                  ELSE <<102, 97, 108, 115, 101>>
      [] OTHER -> <<>>

\* a < b on Go strings: bytewise lexicographic
RECURSIVE StrLess(_, _)
StrLess(a, b) ==
    IF b = <<>> THEN FALSE
    ELSE IF a = <<>> THEN TRUE
    ELSE IF Head(a) # Head(b) THEN Head(a) < Head(b)
    ELSE StrLess(Tail(a), Tail(b))

\* every order in which ranging over a map of n entries can visit them
IterationOrders(n) ==
    {o \in [1 .. n -> 1 .. n] : \A i, j \in 1 .. n : i # j => o[i] # o[j]}

\* keys[i].String() < keys[j].String(), the less function handed to sort.Slice
KeyLess(pairs, i, j) == StrLess(NodeString(pairs[i].key), NodeString(pairs[j].key))

\* one insertion of sort.Slice's insertion sort (lengths below 12): x moves
\* left while it is less than its left neighbour
RECURSIVE InsertKey(_, _, _)
InsertKey(pairs, sorted, x) ==
    IF sorted # <<>> /\ KeyLess(pairs, x, sorted[Len(sorted)])
    THEN Append(InsertKey(pairs, SubSeq(sorted, 1, Len(sorted) - 1), x),
                sorted[Len(sorted)])
    ELSE Append(sorted, x)

\* sort.Slice(keys, less) on the keys in iteration order
RECURSIVE SortSlice(_, _)
SortSlice(pairs, keys) ==
    IF keys = <<>> THEN <<>>
    ELSE InsertKey(pairs, SortSlice(pairs, SubSeq(keys, 1, Len(keys) - 1)),
                   keys[Len(keys)])

(***************************************************************************)
(* package compiler                                                        *)
(***************************************************************************)
\* the placeholder operand of a jump that is patched later
Placeholder == 9999

EmittedInstruction(op, pos) == [Opcode |-> op, Position |-> pos]

\* CompilationScope{}: empty instructions, zero-valued last and previous
NewScope == [instructions |-> <<>>,
             lastInstruction |-> EmittedInstruction(0, 0),
             previousInstruction |-> EmittedInstruction(0, 0)]

\* New()
New == [constants |-> <<>>,
        symbolTable |-> WithBuiltins(<<NewSymbolTable>>, Len(Builtins)),
        scopes |-> <<NewScope>>,
        scopeIndex |-> 0,
        emitted |-> <<>>]

\* NewWithState(s, constants)
NewWithState(s, constants) == [New EXCEPT !.symbolTable = s, !.constants = constants]

\* c.scopes[c.scopeIndex]
CurrentScope(c) == c.scopes[c.scopeIndex + 1]

currentInstructions(c) == CurrentScope(c).instructions

\* addConstant appends; the index it returns is the length before the call
addConstant(c, obj) == [c EXCEPT !.constants = Append(@, obj)]

addInstruction(c, ins) ==
    [c EXCEPT !.scopes[c.scopeIndex + 1].instructions = @ \o ins]

setLastInstruction(c, op, pos) ==
    [c EXCEPT !.scopes[c.scopeIndex + 1] =
        [@ EXCEPT !.previousInstruction = CurrentScope(c).lastInstruction,
                  !.lastInstruction = EmittedInstruction(op, pos)]]

\* emit(op, operands...): the position it returns is the length of the
\* current scope's instructions before the call.  The emitted field is the
\* history of the calls.
emit(c, op, operands) ==
    LET ins == Make(op, operands)
        pos == Len(currentInstructions(c))
        c1 == setLastInstruction(addInstruction(c, ins), op, pos)
    IN [c1 EXCEPT !.emitted = Append(@, [op |-> op, operands |-> operands,
                                          ins |-> ins, pos |-> pos,
                                          scope |-> c.scopeIndex])]

lastInstructionIs(c, op) ==
    IF Len(currentInstructions(c)) = 0 THEN FALSE
    ELSE CurrentScope(c).lastInstruction.Opcode = op

\* a compiler that cuts the OpPop off and keeps lastInstruction
CutLastPop(c) ==
    [c EXCEPT !.scopes[c.scopeIndex + 1].instructions =
        SliceTo(@, CurrentScope(c).lastInstruction.Position)]

removeLastPop(c) ==
    [c EXCEPT !.scopes[c.scopeIndex + 1] =
        [@ EXCEPT !.instructions = SliceTo(@, CurrentScope(c).lastInstruction.Position),
                  !.lastInstruction = CurrentScope(c).previousInstruction]]

\* a compiler that cuts the buffer after the instruction it replaces
ReplaceAndCut(c, pos, newInstruction) ==
    [c EXCEPT !.scopes[c.scopeIndex + 1].instructions =
        SliceTo(@, pos) \o newInstruction]

\* replaceInstruction(pos, newInstruction): overwrite in place
replaceInstruction(c, pos, newInstruction) ==
    [c EXCEPT !.scopes[c.scopeIndex + 1].instructions =
        [i \in 1 .. Len(@) |->
            IF i > pos /\ i <= pos + Len(newInstruction)
            THEN newInstruction[i - pos] ELSE @[i]]]

changeOperand(c, opPos, operand) ==
    replaceInstruction(c, opPos, Make(currentInstructions(c)[opPos + 1], <<operand>>))

enterScope(c) ==
    [c EXCEPT !.scopes = Append(@, NewScope),
              !.scopeIndex = @ + 1,
              !.symbolTable = Append(@, NewSymbolTable)]

\* leaveScope returns currentInstructions(c) of before the call
leaveScope(c) ==
    [c EXCEPT !.scopes = SubSeq(@, 1, Len(@) - 1),
              !.scopeIndex = @ - 1,
              !.symbolTable = SubSeq(@, 1, Len(@) - 1)]

\* a compiler that records the new opcode and leaves the byte as it is
RecordReturnOnly(c) ==
    [c EXCEPT !.scopes[c.scopeIndex + 1].lastInstruction.Opcode = OpReturnValue]

replaceLastPopWithReturn(c) ==
    [replaceInstruction(c, CurrentScope(c).lastInstruction.Position,
                        Make(OpReturnValue, <<>>))
        EXCEPT !.scopes[c.scopeIndex + 1].lastInstruction.Opcode = OpReturnValue]

loadSymbol(c, s) ==
    CASE s.Scope = GlobalScope -> emit(c, OpGetGlobal, <<s.Index>>)
      [] s.Scope = LocalScope -> emit(c, OpGetLocal, <<s.Index>>)
      [] s.Scope = BuiltinScope -> emit(c, OpGetBuiltin, <<s.Index>>)
      [] s.Scope = FreeScope -> emit(c, OpGetFree, <<s.Index>>)
      [] s.Scope = FunctionScope -> emit(c, OpCurrentClosure, <<>>)
      [] OTHER -> c

\* a compiler that loads the free symbols last to first
RECURSIVE loadSymbolsBackwards(_, _)
loadSymbolsBackwards(c, syms) ==
    IF syms = <<>> THEN c
    ELSE loadSymbolsBackwards(loadSymbol(c, syms[Len(syms)]),
                              SubSeq(syms, 1, Len(syms) - 1))

\* loadSymbol for each symbol of a list, in order
RECURSIVE loadSymbols(_, _)
loadSymbols(c, syms) ==
    IF syms = <<>> THEN c
    ELSE loadSymbol(loadSymbols(c, SubSeq(syms, 1, Len(syms) - 1)), syms[Len(syms)])

\* c.symbolTable.Define(p.Value) for each parameter, in order
RECURSIVE DefineAll(_, _)
DefineAll(st, params) ==
    IF params = <<>> THEN st
    ELSE Define(DefineAll(st, SubSeq(params, 1, Len(params) - 1)),
                params[Len(params)].Value)

\* errors: nil, fmt.Errorf("undefined variable %s", ...) and
\* fmt.Errorf("unknown operator %s", ...)
NoErr == [msg |-> "", arg |-> ""]
Errorf(msg, arg) == [msg |-> msg, arg |-> arg]

(***************************************************************************)
(* The call stack of Compile.  A frame is one active call: its node, the   *)
(* path of the node from the root (the child numbers follow the source     *)
(* text: Left 1, Right 2; Condition 1, Consequence 2, Alternative 3;       *)
(* Function 1, argument i at i+1; pair i's key at 2i-1, its value at 2i),  *)
(* the place in the case (pc) and the case's locals.                       *)
(***************************************************************************)
NewFrame(node, path) ==
    [node |-> node, path |-> path, pc |-> 0, i |-> 0, a |-> 0, b |-> 0,
     s |-> 0, sym |-> NoSymbol, keys |-> <<>>]

Top == todo[Len(todo)]

Running(kind) == phase = "compile" /\ todo # <<>> /\ Top.node.kind = kind

\* history: the first event of a top-level call
FirstCall == [ev |-> "call", path |-> <<>>, n |-> 0, err |-> NoErr]

\* the call c.Compile(child) made from frame f
Call(c, f, child, idx) ==
    /\ comp' = c
    /\ todo' = Append([todo EXCEPT ![Len(todo)] = f],
                      NewFrame(child, Append(f.path, idx)))
    /\ trace' = Append(trace, [ev |-> "call", path |-> Append(f.path, idx),
                                n |-> Len(c.emitted), err |-> NoErr])
    /\ UNCHANGED <<ret, phase, outside>>

\* the return of the current call with error e (NoErr for nil)
Return(c, e) ==
    /\ comp' = c
    /\ todo' = SubSeq(todo, 1, Len(todo) - 1)
    /\ ret' = e
    /\ phase' = IF Len(todo) = 1 THEN "done" ELSE phase
    /\ trace' = Append(trace, [ev |-> "return", path |-> Top.path,
                                n |-> Len(c.emitted), err |-> e])
    /\ UNCHANGED outside

\* a compiler that goes on to the next statement after an error
CompileStatementsIgnoringError ==
    LET f == Top
    IN IF f.i < Len(f.node.Statements)
       THEN Call(comp, [f EXCEPT !.i = @ + 1], f.node.Statements[f.i + 1], f.i + 1)
       ELSE Return(comp, IF f.i > 0 THEN ret ELSE NoErr)

\* case *ast.Program and case *ast.BlockStatement: compile each statement
\* in order, return the first error
CompileStatements ==
    LET f == Top
    IN IF f.i > 0 /\ ret # NoErr THEN Return(comp, ret)
       ELSE IF f.i < Len(f.node.Statements)
       THEN Call(comp, [f EXCEPT !.i = @ + 1], f.node.Statements[f.i + 1], f.i + 1)
       ELSE Return(comp, NoErr)

CompileProgram ==
    /\ Running("Program")
    /\ CompileStatements
    /\ UNCHANGED ifDone

CompileBlockStatement ==
    /\ Running("BlockStatement")
    /\ CompileStatements
    /\ UNCHANGED ifDone

\* the end of case *ast.FunctionLiteral, after the body compiled
FunctionLiteralEnd(c, node) ==
    LET c1 == IF lastInstructionIs(c, OpPop) THEN replaceLastPopWithReturn(c) ELSE c
        c2 == IF ~lastInstructionIs(c1, OpReturnValue) THEN emit(c1, OpReturn, <<>>) ELSE c1
        freeSymbols == c2.symbolTable[Len(c2.symbolTable)].FreeSymbols
        numLocals == c2.symbolTable[Len(c2.symbolTable)].numDefinitions
        instructions == currentInstructions(c2)
        c3 == loadSymbols(leaveScope(c2), freeSymbols)
        compiledFn == CompiledFunction(instructions, numLocals, Len(node.Parameters))
        fnIndex == Len(c3.constants)
    IN emit(addConstant(c3, compiledFn), OpClosure, <<fnIndex, Len(freeSymbols)>>)

CompileFunctionLiteral ==
    /\ Running("FunctionLiteral")
    /\ LET f == Top
           c1 == enterScope(comp)
           c2 == IF f.node.Name # ""
                 THEN [c1 EXCEPT !.symbolTable = DefineFunctionName(@, f.node.Name)]
                 ELSE c1
           c3 == [c2 EXCEPT !.symbolTable = DefineAll(@, f.node.Parameters)]
       IN IF f.pc = 0 THEN Call(c3, [f EXCEPT !.pc = 1], f.node.Body, 1)
          ELSE IF ret # NoErr THEN Return(comp, ret)
          ELSE Return(FunctionLiteralEnd(comp, f.node), NoErr)
    /\ UNCHANGED ifDone

CompileReturnStatement ==
    /\ Running("ReturnStatement")
    /\ LET f == Top
       IN IF f.pc = 0 THEN Call(comp, [f EXCEPT !.pc = 1], f.node.ReturnValue, 1)
          ELSE IF ret # NoErr THEN Return(comp, ret)
          ELSE Return(emit(comp, OpReturnValue, <<>>), NoErr)
    /\ UNCHANGED ifDone

\* history: what the IfExpression case did, written when it returns nil
IfRecord(f, c, jumpPos) ==
    [path |-> f.path, scope |-> c.scopeIndex, start |-> f.s,
     jumpNotTruthyPos |-> f.a, jumpPos |-> jumpPos,
     end |-> Len(currentInstructions(c)),
     instructions |-> currentInstructions(c),
     hasAlternative |-> f.node.Alternative.kind # "nil"]

\* case *ast.IfExpression, from the return of the consequence to the call
\* of the alternative (or, with none, to the end)
IfAfterConsequence(c, f) ==
    LET c1 == IF lastInstructionIs(c, OpPop) THEN removeLastPop(c) ELSE c
        jumpPos == Len(currentInstructions(c1))
        c2 == emit(c1, OpJump, <<Placeholder>>)
        afterConsequencePos == Len(currentInstructions(c2))
    IN [c |-> changeOperand(c2, f.a, afterConsequencePos), jumpPos |-> jumpPos]

\* a compiler that leaves the operand of OpJump as emitted
IfEndUnpatched(c, jumpPos) == c

\* the end of the case: the alternative (or OpNull) is in place
IfEnd(c, jumpPos) == changeOperand(c, jumpPos, Len(currentInstructions(c)))

CompileIfExpression ==
    /\ Running("IfExpression")
    /\ LET f == Top
       IN CASE f.pc = 0 ->
                 /\ Call(comp, [f EXCEPT !.pc = 1, !.s = Len(currentInstructions(comp))],
                         f.node.Condition, 1)
                 /\ UNCHANGED ifDone
            [] f.pc = 1 ->
                 /\ IF ret # NoErr THEN Return(comp, ret)
                    ELSE Call(emit(comp, OpJumpNotTruthy, <<Placeholder>>),
                              [f EXCEPT !.pc = 2, !.a = Len(currentInstructions(comp))],
                              f.node.Consequence, 2)
                 /\ UNCHANGED ifDone
            [] f.pc = 2 ->
                 IF ret # NoErr THEN Return(comp, ret) /\ UNCHANGED ifDone
                 ELSE LET r == IfAfterConsequence(comp, f)
                      IN IF f.node.Alternative.kind = "nil"
                         THEN LET c2 == IfEnd(emit(r.c, OpNull, <<>>), r.jumpPos)
                              IN /\ Return(c2, NoErr)
                                 /\ ifDone' = Append(ifDone, IfRecord(f, c2, r.jumpPos))
                         ELSE /\ Call(r.c, [f EXCEPT !.pc = 3, !.b = r.jumpPos],
                                      f.node.Alternative, 3)
                              /\ UNCHANGED ifDone
            [] OTHER ->
                 IF ret # NoErr THEN Return(comp, ret) /\ UNCHANGED ifDone
                 ELSE LET c1 == IF lastInstructionIs(comp, OpPop)
                                THEN removeLastPop(comp) ELSE comp
                          c2 == IfEnd(c1, f.b)
                      IN /\ Return(c2, NoErr)
                         /\ ifDone' = Append(ifDone, IfRecord(f, c2, f.b))

\* a compiler that leaves the value of an expression statement on the stack
ExpressionStatementWithoutPop ==
    /\ Running("ExpressionStatement")
    /\ LET f == Top
       IN IF f.pc = 0 THEN Call(comp, [f EXCEPT !.pc = 1], f.node.Expression, 1)
          ELSE Return(comp, ret)
    /\ UNCHANGED ifDone

CompileExpressionStatement ==
    /\ Running("ExpressionStatement")
    /\ LET f == Top
       IN IF f.pc = 0 THEN Call(comp, [f EXCEPT !.pc = 1], f.node.Expression, 1)
          ELSE IF ret # NoErr THEN Return(comp, ret)
          ELSE Return(emit(comp, OpPop, <<>>), NoErr)
    /\ UNCHANGED ifDone

\* a compiler that defines the name after it compiled the value
LetDefinesAfterValue ==
    /\ Running("LetStatement")
    /\ LET f == Top
           symbol == DefinedSymbol(comp.symbolTable, f.node.Name.Value)
           c == [comp EXCEPT !.symbolTable = Define(@, f.node.Name.Value)]
       IN IF f.pc = 0
          THEN Call(comp, [f EXCEPT !.pc = 1], f.node.Value, 1)
          ELSE IF ret # NoErr THEN Return(comp, ret)
          ELSE IF symbol.Scope = GlobalScope
          THEN Return(emit(c, OpSetGlobal, <<symbol.Index>>), NoErr)
          ELSE Return(emit(c, OpSetLocal, <<symbol.Index>>), NoErr)
    /\ UNCHANGED ifDone

CompileLetStatement ==
    /\ Running("LetStatement")
    /\ LET f == Top
           symbol == DefinedSymbol(comp.symbolTable, f.node.Name.Value)
       IN IF f.pc = 0
          THEN Call([comp EXCEPT !.symbolTable = Define(@, f.node.Name.Value)],
                    [f EXCEPT !.pc = 1, !.sym = symbol], f.node.Value, 1)
          ELSE IF ret # NoErr THEN Return(comp, ret)
          ELSE IF f.sym.Scope = GlobalScope
          THEN Return(emit(comp, OpSetGlobal, <<f.sym.Index>>), NoErr)
          ELSE Return(emit(comp, OpSetLocal, <<f.sym.Index>>), NoErr)
    /\ UNCHANGED ifDone

CompileIdentifier ==
    /\ Running("Identifier")
    /\ LET r == Resolve(comp.symbolTable, Len(comp.symbolTable), Top.node.Value)
       IN IF ~r.ok THEN Return([comp EXCEPT !.symbolTable = r.st],
                               Errorf("undefined variable", Top.node.Value))
          ELSE Return(loadSymbol([comp EXCEPT !.symbolTable = r.st], r.sym), NoErr)
    /\ UNCHANGED ifDone

\* f.i counts the calls made: the function, then the arguments in order
CompileCallExpression ==
    /\ Running("CallExpression")
    /\ LET f == Top
       IN IF f.i = 0 THEN Call(comp, [f EXCEPT !.i = 1], f.node.Function, 1)
          ELSE IF ret # NoErr THEN Return(comp, ret)
          ELSE IF f.i <= Len(f.node.Arguments)
          THEN Call(comp, [f EXCEPT !.i = @ + 1], f.node.Arguments[f.i], f.i + 1)
          ELSE Return(emit(comp, OpCall, <<Len(f.node.Arguments)>>), NoErr)
    /\ UNCHANGED ifDone

CompilePrefixExpression ==
    /\ Running("PrefixExpression")
    /\ LET f == Top
       IN IF f.pc = 0 THEN Call(comp, [f EXCEPT !.pc = 1], f.node.Right, 1)
          ELSE IF ret # NoErr THEN Return(comp, ret)
          ELSE CASE f.node.Operator = "!" -> Return(emit(comp, OpBang, <<>>), NoErr)
                 [] f.node.Operator = "-" -> Return(emit(comp, OpMinus, <<>>), NoErr)
                 [] OTHER -> Return(comp, Errorf("unknown operator", f.node.Operator))
    /\ UNCHANGED ifDone

\* a compiler that compiles the left operand first for every operator
InfixFirstLeft(node) == 1

\* the child compiled first and the child compiled second
InfixFirst(node) == IF node.Operator = "<" THEN 2 ELSE 1
InfixChild(node, idx) == IF idx = 1 THEN node.Left ELSE node.Right

\* the switch on node.Operator after both operands compiled
InfixOpcode(operator) ==
    CASE operator = "<" -> OpGreaterThan
      [] operator = "+" -> OpAdd
      [] operator = "-" -> OpSub
      [] operator = "*" -> OpMul
      [] operator = "/" -> OpDiv
      [] operator = ">" -> OpGreaterThan
      [] operator = "==" -> OpEqual
      [] operator = "!=" -> OpNotEqual
      [] OTHER -> -1

CompileInfixExpression ==
    /\ Running("InfixExpression")
    /\ LET f == Top
           first == InfixFirst(f.node)
       IN IF f.pc = 0 THEN Call(comp, [f EXCEPT !.pc = 1], InfixChild(f.node, first), first)
          ELSE IF ret # NoErr THEN Return(comp, ret)
          ELSE IF f.pc = 1
          THEN Call(comp, [f EXCEPT !.pc = 2], InfixChild(f.node, 3 - first), 3 - first)
          ELSE IF InfixOpcode(f.node.Operator) = -1
          THEN Return(comp, Errorf("unknown operator", f.node.Operator))
          ELSE Return(emit(comp, InfixOpcode(f.node.Operator), <<>>), NoErr)
    /\ UNCHANGED ifDone

CompileIndexExpression ==
    /\ Running("IndexExpression")
    /\ LET f == Top
       IN IF f.pc = 0 THEN Call(comp, [f EXCEPT !.pc = 1], f.node.Left, 1)
          ELSE IF ret # NoErr THEN Return(comp, ret)
          ELSE IF f.pc = 1 THEN Call(comp, [f EXCEPT !.pc = 2], f.node.Index, 2)
          ELSE Return(emit(comp, OpIndex, <<>>), NoErr)
    /\ UNCHANGED ifDone

CompileIntegerLiteral ==
    /\ Running("IntegerLiteral")
    /\ Return(emit(addConstant(comp, Integer(Top.node.Value)), OpConstant,
                   <<Len(comp.constants)>>), NoErr)
    /\ UNCHANGED ifDone

CompileStringLiteral ==
    /\ Running("StringLiteral")
    /\ Return(emit(addConstant(comp, String(Top.node.Value)), OpConstant,
                   <<Len(comp.constants)>>), NoErr)
    /\ UNCHANGED ifDone

CompileArrayLiteral ==
    /\ Running("ArrayLiteral")
    /\ LET f == Top
       IN IF f.i > 0 /\ ret # NoErr THEN Return(comp, ret)
          ELSE IF f.i < Len(f.node.Elements)
          THEN Call(comp, [f EXCEPT !.i = @ + 1], f.node.Elements[f.i + 1], f.i + 1)
          ELSE Return(emit(comp, OpArray, <<Len(f.node.Elements)>>), NoErr)
    /\ UNCHANGED ifDone

\* the keys of node.Pairs, collected in the map's iteration order (any
\* order) and sorted; the keys are the entries' numbers in the source
HashKeys(node) ==
    {SortSlice(node.Pairs, o) : o \in IterationOrders(Len(node.Pairs))}

\* f.i is the number of the key being compiled, f.pc = 1 after the call on
\* a key and 2 after the call on its value
CompileHashLiteral ==
    /\ Running("HashLiteral")
    /\ LET f == Top
           n == Len(f.node.Pairs)
       IN CASE f.pc = 0 ->
                 \E keys \in HashKeys(f.node) :
                    IF n = 0 THEN Return(emit(comp, OpHash, <<n * 2>>), NoErr)
                    ELSE Call(comp, [f EXCEPT !.pc = 1, !.i = 1, !.keys = keys],
                              f.node.Pairs[keys[1]].key, 2 * keys[1] - 1)
            [] f.pc = 1 ->
                 IF ret # NoErr THEN Return(comp, ret)
                 ELSE Call(comp, [f EXCEPT !.pc = 2],
                           f.node.Pairs[f.keys[f.i]].value, 2 * f.keys[f.i])
            [] OTHER ->
                 IF ret # NoErr THEN Return(comp, ret)
                 ELSE IF f.i < n
                 THEN Call(comp, [f EXCEPT !.pc = 1, !.i = @ + 1],
                           f.node.Pairs[f.keys[f.i + 1]].key, 2 * f.keys[f.i + 1] - 1)
                 ELSE Return(emit(comp, OpHash, <<n * 2>>), NoErr)
    /\ UNCHANGED ifDone

CompileBoolean ==
    /\ Running("Boolean")
    /\ IF Top.node.Value THEN Return(emit(comp, OpTrue, <<>>), NoErr)
       ELSE Return(emit(comp, OpFalse, <<>>), NoErr)
    /\ UNCHANGED ifDone

\* a nil node matches no case of the switch: return nil
CompileNil ==
    /\ Running("nil")
    /\ Return(comp, NoErr)
    /\ UNCHANGED ifDone

Compile ==
    \/ CompileProgram
    \/ CompileFunctionLiteral
    \/ CompileReturnStatement
    \/ CompileIfExpression
    \/ CompileBlockStatement
    \/ CompileExpressionStatement
    \/ CompileLetStatement
    \/ CompileIdentifier
    \/ CompileCallExpression
    \/ CompilePrefixExpression
    \/ CompileInfixExpression
    \/ CompileIndexExpression
    \/ CompileIntegerLiteral
    \/ CompileStringLiteral
    \/ CompileArrayLiteral
    \/ CompileHashLiteral
    \/ CompileBoolean
    \/ CompileNil

(***************************************************************************)
(* The nodes handed to Compile.                                            *)
(***************************************************************************)
One == IntegerLiteral(1)
Two == IntegerLiteral(2)
True == Boolean(TRUE)
\* x is never defined; a is defined by the let statements below
X == Identifier("x")
LetA == LetStatement(Identifier("a"), One)
Stmt(e) == ExpressionStatement(e)

InfixOperators == {"+", "-", "*", "/", ">", "<", "==", "!=", "%"}
PrefixOperators == {"!", "-", "~"}
Operands == {One, X, True}

\* the blocks of the if-expressions: empty, ending in an expression
\* statement, a let, a return, a nested if-expression, an undefined name
Blocks ==
    {BlockStatement(<<>>),
     BlockStatement(<<Stmt(One)>>),
     BlockStatement(<<LetA>>),
     BlockStatement(<<ReturnStatement(One)>>),
     BlockStatement(<<Stmt(IfExpression(True, BlockStatement(<<Stmt(Two)>>), NilNode))>>),
     BlockStatement(<<Stmt(One), Stmt(NilNode)>>),
     BlockStatement(<<Stmt(X)>>)}

IfExpressions ==
    {IfExpression(c, cons, alt) :
        c \in {True, X}, cons \in Blocks, alt \in Blocks \cup {NilNode}}

Fn(params, body) == FunctionLiteral("", params, BlockStatement(body))
A == Identifier("a")
B == Identifier("b")

FunctionLiterals ==
    {Fn(<<>>, <<>>),
     Fn(<<A>>, <<Stmt(A)>>),
     Fn(<<A>>, <<ReturnStatement(A)>>),
     Fn(<<A, A>>, <<Stmt(A)>>),
     Fn(<<A>>, <<LetStatement(B, A)>>),
     Fn(<<A>>, <<Stmt(IfExpression(A, BlockStatement(<<Stmt(One)>>), NilNode))>>),
     Fn(<<A>>, <<Stmt(Fn(<<B>>, <<Stmt(InfixExpression("+", A, B))>>))>>),
     Fn(<<A>>, <<Stmt(Fn(<<B>>, <<Stmt(Fn(<<>>, <<Stmt(InfixExpression("<", A, B))>>))>>))>>),
     Fn(<<A>>, <<Stmt(X)>>),
     Fn(<<A>>, <<Stmt(Fn(<<>>, <<Stmt(X)>>))>>)}

HashLiterals ==
    {HashLiteral(<<>>),
     HashLiteral(<<[key |-> StringLiteral("a"), value |-> One]>>),
     HashLiteral(<<[key |-> StringLiteral("b"), value |-> One],
                   [key |-> StringLiteral("a"), value |-> Two]>>),
     HashLiteral(<<[key |-> StringLiteral("a"), value |-> One],
                   [key |-> StringLiteral("a"), value |-> Two]>>),
     HashLiteral(<<[key |-> One, value |-> Two],
                   [key |-> StringLiteral("a"), value |-> One],
                   [key |-> One, value |-> True]>>),
     HashLiteral(<<[key |-> X, value |-> One],
                   [key |-> StringLiteral("a"), value |-> Two]>>),
     HashLiteral(<<[key |-> StringLiteral("ab"), value |-> X],
                   [key |-> StringLiteral("a"), value |-> Two]>>)}

Expressions ==
    {InfixExpression(op, l, r) : op \in InfixOperators, l \in Operands, r \in Operands}
    \cup {PrefixExpression(op, r) : op \in PrefixOperators, r \in Operands}
    \cup IfExpressions
    \cup FunctionLiterals
    \cup HashLiterals
    \cup {StringLiteral("a"), Boolean(FALSE), NilNode,
          ArrayLiteral(<<>>), ArrayLiteral(<<One, Two>>), ArrayLiteral(<<One, X, Two>>),
          IndexExpression(ArrayLiteral(<<One>>), Two), IndexExpression(X, One),
          IndexExpression(One, X),
          CallExpression(Identifier("len"), <<>>),
          CallExpression(Identifier("len"), <<One, True, Two>>),
          CallExpression(Identifier("len"), <<One, X, Two>>),
          CallExpression(X, <<One>>),
          CallExpression(Fn(<<A>>, <<Stmt(A)>>), <<One>>)}

Programs ==
    {Program(<<>>)}
    \cup {Program(<<Stmt(e)>>) : e \in Expressions}
    \cup {Program(<<LetStatement(Identifier("y"), e)>>) : e \in IfExpressions}
    \cup {Program(<<LetA, Stmt(A)>>),
          Program(<<LetStatement(A, A)>>),
          Program(<<LetStatement(A, B)>>),
          Program(<<LetStatement(A, IfExpression(True, BlockStatement(<<LetA>>),
                                                 NilNode))>>),
          Program(<<LetA, LetStatement(A, Two), Stmt(A)>>),
          Program(<<Stmt(X), Stmt(One)>>),
          Program(<<Stmt(One), Stmt(X), Stmt(Two)>>),
          Program(<<ReturnStatement(One)>>),
          Program(<<ReturnStatement(X), Stmt(One)>>),
          Program(<<LetStatement(Identifier("f"),
                       FunctionLiteral("f", <<Identifier("x")>>,
                          BlockStatement(<<Stmt(CallExpression(Identifier("f"),
                                                               <<Identifier("x")>>))>>))),
                    Stmt(CallExpression(Identifier("f"), <<One>>))>>),
          Program(<<LetA, Stmt(Fn(<<B>>, <<Stmt(InfixExpression("+", A, B))>>))>>)}

\* Compile accepts a Program and any single statement or expression
Roots == Programs \cup IfExpressions \cup {One, LetA, Stmt(One)}

\* a call with WideCall arguments, as a program
WideProgram ==
    Program(<<Stmt(CallExpression(Identifier("len"), [i \in 1 .. WideCall |-> One]))>>)

WideRoots == Roots \cup {WideProgram}

\* Bytecode(), with the error Compile returned
Bytecode(c) == [Instructions |-> currentInstructions(c), Constants |-> c.constants]

NoBytecode == [Instructions |-> <<>>, Constants |-> <<>>]

Start(roots) ==
    /\ ast \in roots
    /\ comp = New
    /\ todo = <<NewFrame(ast, <<>>)>>
    /\ ret = NoErr
    /\ trace = <<FirstCall>>
    /\ ifDone = <<>>
    /\ phase = "compile"
    /\ run = 1
    /\ firstRun = [code |-> NoBytecode, err |-> NoErr]
    /\ parse = <<>>
    /\ repl = <<>>
    /\ str = <<>>
    /\ lex = <<>>

Init == Start(Roots)

InitWide == Start(WideRoots)

\* the same node is compiled once more, by a new compiler: New() and
\* Compile(ast) as a second run of the program makes them
Recompile ==
    /\ phase = "done"
    /\ run = 1
    /\ run' = 2
    /\ firstRun' = [code |-> Bytecode(comp), err |-> ret]
    /\ comp' = New
    /\ todo' = <<NewFrame(ast, <<>>)>>
    /\ ret' = NoErr
    /\ trace' = <<FirstCall>>
    /\ ifDone' = <<>>
    /\ phase' = "compile"
    /\ UNCHANGED <<ast, parse, repl, str, lex>>

Next == Compile \/ Recompile

Spec == Init /\ [][Next]_vars

\* the same compiler, also handed the wide call
SpecWide == InitWide /\ [][Next]_vars

(***************************************************************************)
(* The parser on its own: a source is lexed and parsed to its end.         *)
(***************************************************************************)
\* what stands before a function literal
SourceHeads ==
    {<<>>,
     <<"let", "f", "=">>,
     <<"let", "f", "=", "(">>,
     <<"let", "f", "=", "[">>,
     <<"let", "f", "=", "-">>,
     <<"let", "f", "=", "1", "+">>,
     <<"let", "f", "=", "g", "(">>,
     <<"let", "f", "=", "{", "1", ":">>,
     <<"let", "f", "=", "if", "(", "true", ")", "{">>,
     <<"let", "f">>,
     <<"let", "=">>,
     <<"return">>,
     <<"g", "(", "1", ",">>}

\* function literals, well formed and not, and other expressions
SourceBodies ==
    {<<"fn", "(", ")", "{", "}">>,
     <<"fn", "(", "x", ")", "{", "x", "}">>,
     <<"fn", "(", "x", ",", "y", ")", "{", "return", "x", "<", "y", ";", "}">>,
     <<"fn", "(", ")", "{", "let", "g", "=", "fn", "(", ")", "{", "}", "}">>,
     <<"fn", "(", ")", "{", "fn", "(", ")", "{", "}", "}">>,
     <<"fn", "(", ")", "{", "let", "g", "=", "fn", "(", ")", "{", "}", "(", ")", "}">>,
     <<"fn", "(", "x", "{", "}">>,
     <<"fn", "(", ")">>,
     <<"fn", "(", ")", "{">>,
     <<"fn">>,
     <<"fn", "(", "x", ",">>,
     <<"{">>,
     <<"[", "1", ",">>,
     <<"\"a\"">>,
     <<"08">>,
     <<"@">>,
     <<"!", "false">>,
     <<"f", "*", "2", "==", "1", "/", "3", "!=", "true", ">", "0">>}

\* what follows it
SourceTails ==
    {<<>>,
     <<";">>,
     <<")">>,
     <<"]">>,
     <<"}">>,
     <<"(", "1", ")">>,
     <<"[", "0", "]">>,
     <<"+", "1">>,
     <<",", "fn", "(", ")", "{", "}", "]">>,
     <<",", "2", ":", "fn", "(", ")", "{", "}", "}">>,
     <<"}", "else", "{", "fn", "(", ")", "{", "}", "}">>,
     <<";", "let", "g", "=", "fn", "(", ")", "{", "}">>,
     <<"+", "\"a">>}

Sources == {h \o b \o t : h \in SourceHeads, b \in SourceBodies, t \in SourceTails}

NotParsed == [program |-> NilNode, errors |-> <<>>, stuck |-> FALSE, atEnd |-> FALSE]

InitParser ==
    /\ parse \in {[source |-> s, done |-> FALSE, result |-> NotParsed] : s \in Sources}
    /\ ast = NilNode
    /\ comp = New
    /\ todo = <<>>
    /\ ret = NoErr
    /\ trace = <<>>
    /\ ifDone = <<>>
    /\ phase = "parse"
    /\ run = 0
    /\ firstRun = [code |-> NoBytecode, err |-> NoErr]
    /\ repl = <<>>
    /\ str = <<>>
    /\ lex = <<>>

\* l := lexer.New(source); p := parser.New(l); program := p.ParseProgram()
Parse ==
    /\ phase = "parse"
    /\ ~parse.done
    /\ parse' = [parse EXCEPT !.done = TRUE, !.result = ParseSource(parse.source)]
    /\ UNCHANGED <<ast, comp, todo, ret, trace, ifDone, phase, run, firstRun, repl, str, lex>>

NextParser == Parse

SpecParser == InitParser /\ [][NextParser]_vars

(***************************************************************************)
(* package vm.  The machine runs the bytecode of one line to its end.  A   *)
(* slot of the stack or of the globals that was never written holds        *)
(* NilObject; what the Go runtime stops with a panic ends with the error   *)
(* Panic.                                                                  *)
(***************************************************************************)
TrueObject == [type |-> "BOOLEAN", bval |-> TRUE]
FalseObject == [type |-> "BOOLEAN", bval |-> FALSE]
Null == [type |-> "NULL"]
NilObject == [type |-> "nil"]
ErrorObject(msg) == [type |-> "ERROR", Message |-> msg]
Array(elements) == [type |-> "ARRAY", Elements |-> elements]
Hash(pairs) == [type |-> "HASH", Pairs |-> pairs]
Closure(fn, free) == [type |-> "CLOSURE", Fn |-> fn, Free |-> free]
Builtin(index) == [type |-> "BUILTIN", index |-> index]

Panic == "panic"
NoError == ""

\* the capacity of the stack and of the frame stack
StackSize == 2048
MaxFrames == 1024

NewVMFrame(cl, basePointer) == [cl |-> cl, ip |-> 0, basePointer |-> basePointer]

\* vm.NewWithGlobalsStore(bytecode, globals)
NewWithGlobalsStore(bytecode, globals) ==
    [constants |-> bytecode.Constants,
     stack |-> <<>>,
     sp |-> 0,
     globals |-> globals,
     frames |-> <<NewVMFrame(Closure(CompiledFunction(bytecode.Instructions, 0, 0), <<>>), 0)>>,
     err |-> NoError,
     puts |-> <<>>]

\* stack[i] and globals[i], 0-based
Slot(stack, i) == IF i >= 0 /\ i < Len(stack) THEN stack[i + 1] ELSE NilObject
Global(globals, i) == IF i \in DOMAIN globals THEN globals[i] ELSE NilObject

SetSlot(stack, i, o) ==
    [k \in 1 .. (IF i + 1 > Len(stack) THEN i + 1 ELSE Len(stack)) |->
        IF k = i + 1 THEN o ELSE IF k <= Len(stack) THEN stack[k] ELSE NilObject]

Fail(vm, msg) == [vm EXCEPT !.err = msg]

push(vm, o) ==
    IF vm.sp < 0 THEN Fail(vm, Panic)
    ELSE IF vm.sp >= StackSize THEN Fail(vm, "stack overflow")
    ELSE [vm EXCEPT !.stack = SetSlot(@, vm.sp, o), !.sp = @ + 1]

\* pop(): the machine after the call; the object popped is Slot(stack, sp)
\* of the result
pop(vm) == IF vm.sp <= 0 THEN Fail(vm, Panic) ELSE [vm EXCEPT !.sp = @ - 1]

LastPoppedStackElem(vm) == Slot(vm.stack, vm.sp)

currentFrame(vm) == vm.frames[Len(vm.frames)]

\* the stack slots from..to-1 as a list
Slots(stack, from, to) == [k \in 1 .. to - from |-> Slot(stack, from + k - 1)]

nativeBoolToBooleanObject(b) == IF b THEN TrueObject ELSE FalseObject

isTruthy(o) ==
    CASE o.type = "BOOLEAN" -> o.bval
      [] o.type = "NULL" -> FALSE
      [] OTHER -> TRUE

Hashable(o) == o.type \in {"INTEGER", "BOOLEAN", "STRING"}

\* the value of the last pair whose key equals key, Null when there is none
RECURSIVE HashGet(_, _)
HashGet(pairs, key) ==
    IF pairs = <<>> THEN Null
    ELSE IF pairs[Len(pairs)].key = key THEN pairs[Len(pairs)].value
    ELSE HashGet(SubSeq(pairs, 1, Len(pairs) - 1), key)

\* the stack slots from..to-1 as the pairs of a hash
HashPairs(stack, from, to) ==
    [k \in 1 .. (to - from) \div 2 |->
        [key |-> Slot(stack, from + 2 * k - 2), value |-> Slot(stack, from + 2 * k - 1)]]

\* the arithmetic and comparison instructions on left and right
executeBinaryOperation(vm, op, left, right) ==
    IF left.type = "nil" \/ right.type = "nil" THEN Fail(vm, Panic)
    ELSE IF left.type = "INTEGER" /\ right.type = "INTEGER"
    THEN CASE op = OpAdd -> push(vm, Integer(left.ival + right.ival))
           [] op = OpSub -> push(vm, Integer(left.ival - right.ival))
           [] op = OpMul -> push(vm, Integer(left.ival * right.ival))
           [] op = OpDiv -> IF right.ival = 0 THEN Fail(vm, Panic)
                            ELSE push(vm, Integer(left.ival \div right.ival))
           [] op = OpEqual -> push(vm, nativeBoolToBooleanObject(left.ival = right.ival))
           [] op = OpNotEqual -> push(vm, nativeBoolToBooleanObject(left.ival # right.ival))
           [] op = OpGreaterThan -> push(vm, nativeBoolToBooleanObject(left.ival > right.ival))
    ELSE IF left.type = "STRING" /\ right.type = "STRING" /\ op = OpAdd
    THEN push(vm, String(left.sval \o right.sval))
    ELSE IF op = OpEqual THEN push(vm, nativeBoolToBooleanObject(left = right))
    ELSE IF op = OpNotEqual THEN push(vm, nativeBoolToBooleanObject(left # right))
    ELSE IF op = OpGreaterThan THEN Fail(vm, "unknown operator")
    ELSE Fail(vm, "unsupported types for binary operation")

\* the built-in functions, by registry index, on a list of arguments
callBuiltin(index, args) ==
    LET name == Builtins[index + 1]
        a == args[1]
    IN IF name = "puts" THEN Null
       ELSE IF name = "push"
       THEN IF Len(args) # 2 THEN ErrorObject("wrong number of arguments")
            ELSE IF a.type # "ARRAY" THEN ErrorObject("argument must be ARRAY")
            ELSE Array(Append(a.Elements, args[2]))
       ELSE IF Len(args) # 1 THEN ErrorObject("wrong number of arguments")
       ELSE IF name = "len"
       THEN IF a.type = "ARRAY" THEN Integer(Len(a.Elements))
            ELSE IF a.type = "STRING" THEN Integer(Len(Chars(a.sval)))
            ELSE ErrorObject("argument not supported")
       ELSE IF a.type # "ARRAY" THEN ErrorObject("argument must be ARRAY")
       ELSE IF a.Elements = <<>> THEN Null
       ELSE IF name = "first" THEN a.Elements[1]
       ELSE IF name = "last" THEN a.Elements[Len(a.Elements)]
       ELSE Array(Tail(a.Elements))

\* OpCall: the callee lies below its numArgs arguments
executeCall(vm, numArgs) ==
    LET callee == Slot(vm.stack, vm.sp - 1 - numArgs)
        args == Slots(vm.stack, vm.sp - numArgs, vm.sp)
    IN IF callee.type = "CLOSURE"
       THEN IF numArgs # callee.Fn.NumParameters THEN Fail(vm, "wrong number of arguments")
            ELSE IF Len(vm.frames) >= MaxFrames THEN Fail(vm, "stack overflow")
            ELSE [vm EXCEPT !.frames = Append(@, NewVMFrame(callee, vm.sp - numArgs)),
                            !.sp = vm.sp - numArgs + callee.Fn.NumLocals]
       ELSE IF callee.type = "BUILTIN"
       THEN push([vm EXCEPT !.sp = vm.sp - numArgs - 1,
                            !.puts = IF Builtins[callee.index + 1] = "puts"
                                     THEN @ \o args ELSE @],
                 callBuiltin(callee.index, args))
       ELSE Fail(vm, "calling non-function")

\* OpReturnValue and OpReturn: leave the frame and push the value
returnValue(vm, o) ==
    LET frame == currentFrame(vm)
    IN IF Len(vm.frames) = 1 THEN Fail(vm, Panic)
       ELSE push([vm EXCEPT !.frames = SubSeq(@, 1, Len(@) - 1),
                            !.sp = frame.basePointer - 1], o)

\* one round of the fetch-decode-dispatch loop
Step(vm) ==
    LET frame == currentFrame(vm)
        ins == frame.cl.Fn.ins
        op == ins[frame.ip + 1]
        r == ReadOperands(op, SliceFrom(ins, frame.ip + 1))
        a == r.operands[1]
        next == [vm EXCEPT !.frames[Len(vm.frames)].ip = frame.ip + 1 + r.read]
        p1 == pop(next)
        top == Slot(next.stack, next.sp - 1)
        p2 == pop(p1)
        below == Slot(next.stack, next.sp - 2)
    IN CASE op = OpConstant -> push(next, vm.constants[a + 1])
         [] op = OpPop -> p1
         [] op \in {OpAdd, OpSub, OpMul, OpDiv, OpEqual, OpNotEqual, OpGreaterThan} ->
                IF p2.err # NoError THEN p2
                ELSE executeBinaryOperation(p2, op, below, top)
         [] op = OpTrue -> push(next, TrueObject)
         [] op = OpFalse -> push(next, FalseObject)
         [] op = OpNull -> push(next, Null)
         [] op = OpBang ->
                IF p1.err # NoError THEN p1
                ELSE push(p1, nativeBoolToBooleanObject(top = FalseObject \/ top = Null))
         [] op = OpMinus ->
                IF p1.err # NoError THEN p1
                ELSE IF top.type = "nil" THEN Fail(p1, Panic)
                ELSE IF top.type # "INTEGER" THEN Fail(p1, "unsupported type for negation")
                ELSE push(p1, Integer(0 - top.ival))
         [] op = OpJump -> [next EXCEPT !.frames[Len(vm.frames)].ip = a]
         [] op = OpJumpNotTruthy ->
                IF p1.err # NoError THEN p1
                ELSE IF isTruthy(top) THEN p1
                ELSE [p1 EXCEPT !.frames[Len(vm.frames)].ip = a]
         [] op = OpSetGlobal ->
                IF p1.err # NoError THEN p1
                ELSE [p1 EXCEPT !.globals =
                        [i \in (DOMAIN @) \cup {a} |-> IF i = a THEN top ELSE @[i]]]
         [] op = OpGetGlobal -> push(next, Global(vm.globals, a))
         [] op = OpSetLocal ->
                IF p1.err # NoError THEN p1
                ELSE [p1 EXCEPT !.stack = SetSlot(@, frame.basePointer + a, top)]
         [] op = OpGetLocal -> push(next, Slot(vm.stack, frame.basePointer + a))
         [] op = OpArray ->
                IF next.sp < a THEN Fail(next, Panic)
                ELSE push([next EXCEPT !.sp = @ - a],
                          Array(Slots(next.stack, next.sp - a, next.sp)))
         [] op = OpHash ->
                LET pairs == HashPairs(next.stack, next.sp - a, next.sp)
                IN IF next.sp < a THEN Fail(next, Panic)
                   ELSE IF \E k \in 1 .. Len(pairs) : ~Hashable(pairs[k].key)
                   THEN Fail(next, "unusable as hash key")
                   ELSE push([next EXCEPT !.sp = @ - a], Hash(pairs))
         [] op = OpIndex ->
                IF p2.err # NoError THEN p2
                ELSE IF below.type = "nil" \/ top.type = "nil" THEN Fail(p2, Panic)
                ELSE IF below.type = "ARRAY" /\ top.type = "INTEGER"
                THEN push(p2, IF top.ival < 0 \/ top.ival >= Len(below.Elements) THEN Null
                              ELSE below.Elements[top.ival + 1])
                ELSE IF below.type = "HASH"
                THEN IF Hashable(top) THEN push(p2, HashGet(below.Pairs, top))
                     ELSE Fail(p2, "unusable as hash key")
                ELSE Fail(p2, "index operator not supported")
         [] op = OpCall -> executeCall(next, a)
         [] op = OpReturnValue ->
                IF p1.err # NoError THEN p1 ELSE returnValue(p1, top)
         [] op = OpReturn -> returnValue(next, Null)
         [] op = OpGetBuiltin -> push(next, Builtin(a))
         [] op = OpClosure ->
                LET n == r.operands[2]
                    fn == vm.constants[a + 1]
                IN IF fn.type # "COMPILED_FUNCTION_OBJ" THEN Fail(next, "not a function")
                   ELSE push([next EXCEPT !.sp = @ - n],
                             Closure(fn, Slots(next.stack, next.sp - n, next.sp)))
         [] op = OpGetFree -> push(next, frame.cl.Free[a + 1])
         [] op = OpCurrentClosure -> push(next, frame.cl)
         [] OTHER -> Fail(next, "unknown opcode")

\* Run(): rounds until the current frame's instructions are at their end
\* or an error stops the machine
RECURSIVE VMRun(_)
VMRun(vm) ==
    IF vm.err # NoError \/ currentFrame(vm).ip >= Len(currentFrame(vm).cl.Fn.ins) THEN vm
    ELSE VMRun(Step(vm))

(***************************************************************************)
(* package repl: Start.  The input is the lines scanner.Scan() delivers,   *)
(* in order; after the last item the input is at EOF.  Scan also returns   *)
(* false on a read error and on a line longer than the scanner's buffer:   *)
(* the item ScanError.                                                     *)
(***************************************************************************)
\* the number of items of the longest input
MaxLines == 3

ScanError == [kind |-> "error", text |-> <<>>]
Line(source) == [kind |-> "line", text |-> source]

ReplLines ==
    {<<>>,
     <<"let", "a", "=", "1", ";">>,
     <<"a">>,
     <<"let", "a", "=", "b", ";">>,
     <<"let", "a">>,
     <<"let", "b", "=", "a", "+", "2", ";">>,
     <<"let", "f", "=", "fn", "(", "x", ")", "{", "x", "+", "a", "}", ";">>,
     <<"f", "(", "2", ")">>,
     <<"let", "a", "=", "-", "\"a\"", ";">>}

ReplItems == {Line(s) : s \in ReplLines} \cup {ScanError}

ReplInputs == UNION {[1 .. n -> ReplItems] : n \in 0 .. MaxLines}

\* the state Start shares between the lines
Shared == [symbolTable |-> repl.symbolTable, constants |-> repl.constants,
           globals |-> repl.globals]

\* history: one event of line n, with the shared state after it
Event(ev, n) == [ev |-> ev, line |-> n, shared |-> Shared]

InitRepl ==
    /\ repl \in {[in |-> i, pc |-> "read", line |-> <<>>, n |-> 0,
                  symbolTable |-> WithBuiltins(<<NewSymbolTable>>, Len(Builtins)),
                  constants |-> <<>>, globals |-> <<>>,
                  out |-> <<>>, log |-> <<>>, bound |-> <<>>, exit |-> ""] :
                    i \in ReplInputs}
    /\ parse = [source |-> <<>>, done |-> FALSE, result |-> NotParsed]
    /\ ast = NilNode
    /\ comp = New
    /\ todo = <<>>
    /\ ret = NoErr
    /\ trace = <<>>
    /\ ifDone = <<>>
    /\ phase = "idle"
    /\ run = 0
    /\ firstRun = [code |-> NoBytecode, err |-> NoErr]
    /\ str = <<>>
    /\ lex = <<>>

compiler == <<ast, comp, todo, ret, trace, ifDone, phase>>

\* scanned := scanner.Scan(); if !scanned { return }; line := scanner.Text()
ReplRead ==
    /\ repl.pc = "read"
    /\ repl' =
         IF repl.in = <<>>
         THEN [repl EXCEPT !.pc = "returned", !.exit = "EOF",
                           !.log = Append(@, Event("EOF", repl.n + 1))]
         ELSE IF Head(repl.in).kind = "error"
         THEN [repl EXCEPT !.pc = "returned", !.exit = "error", !.in = Tail(@),
                           !.log = Append(@, Event("error", repl.n + 1))]
         ELSE [repl EXCEPT !.pc = "parse", !.line = Head(repl.in).text, !.in = Tail(@),
                           !.n = @ + 1,
                           !.log = Append(@, Event("read", repl.n + 1))]
    /\ UNCHANGED <<compiler, run, firstRun, parse, str, lex>>

\* the line is lexed and parsed; with parser errors they are printed and
\* the loop continues, else the compiler is made and Compile is called
ReplParse ==
    /\ repl.pc = "parse"
    /\ LET r == ParseSource(repl.line)
       IN /\ parse' = [source |-> repl.line, done |-> TRUE, result |-> r]
          /\ IF r.errors # <<>>
             THEN /\ repl' = [repl EXCEPT !.pc = "read",
                                !.out = Append(@, <<"parser errors", r.errors>>),
                                !.log = Append(@, Event("parser errors", repl.n))]
                  /\ UNCHANGED compiler
             ELSE /\ repl' = [repl EXCEPT !.pc = "compile",
                                !.log = Append(@, Event("compile", repl.n))]
                  /\ comp' = NewWithState(repl.symbolTable, repl.constants)
                  /\ ast' = r.program
                  /\ todo' = <<NewFrame(r.program, <<>>)>>
                  /\ ret' = NoErr
                  /\ trace' = <<FirstCall>>
                  /\ ifDone' = <<>>
                  /\ phase' = "compile"
    /\ UNCHANGED <<run, firstRun, str, lex>>

\* err := comp.Compile(program), step by step
ReplCompile ==
    /\ repl.pc = "compile"
    /\ Compile

\* Compile returned.  The symbol table Start holds is the outermost table
\* of the compiler, whatever Compile defined in it; with an error the loop
\* continues, else the constants of the bytecode become the shared ones
ReplCompiled ==
    /\ repl.pc = "compile"
    /\ phase = "done"
    /\ phase' = "idle"
    /\ LET table == <<comp.symbolTable[1]>>
       IN repl' =
            IF ret # NoErr
            THEN [repl EXCEPT !.pc = "read", !.symbolTable = table,
                     !.out = Append(@, <<"Woops! Compilation failed:", ret>>),
                     !.log = Append(@, [Event("compile failed", repl.n) EXCEPT
                                           !.shared.symbolTable = table])]
            ELSE [repl EXCEPT !.pc = "run", !.symbolTable = table,
                     !.constants = Bytecode(comp).Constants,
                     !.log = Append(@, [ev |-> "run", line |-> repl.n,
                                        shared |-> [symbolTable |-> table,
                                                    constants |-> Bytecode(comp).Constants,
                                                    globals |-> repl.globals]])]
    /\ UNCHANGED <<ast, comp, todo, ret, trace, ifDone, run, firstRun, parse, str, lex>>

\* the global names the line defined that its run wrote, each with its
\* index and the value written
Bindings(before, after, globals) ==
    LET names == {name \in DOMAIN after.store :
                     /\ after.store[name].Scope = GlobalScope
                     /\ \/ name \notin DOMAIN before.store
                        \/ before.store[name] # after.store[name]
                     /\ after.store[name].Index \in DOMAIN globals}
    IN [name \in names |-> [index |-> after.store[name].Index,
                            value |-> globals[after.store[name].Index]]]

\* f, but g where g is defined
Override(f, g) == [x \in (DOMAIN f) \cup (DOMAIN g) |-> IF x \in DOMAIN g THEN g[x] ELSE f[x]]

\* machine := vm.NewWithGlobalsStore(code, globals); err = machine.Run();
\* then the last popped element is printed
ReplRun ==
    /\ repl.pc = "run"
    /\ LET machine == VMRun(NewWithGlobalsStore(Bytecode(comp), repl.globals))
           lastPopped == LastPoppedStackElem(machine)
           started == repl.log[Len(repl.log) - 1].shared.symbolTable
           after == [repl EXCEPT !.globals = machine.globals]
           shared == [symbolTable |-> repl.symbolTable, constants |-> repl.constants,
                      globals |-> machine.globals]
       IN repl' =
            IF machine.err = Panic \/ (machine.err = NoError /\ lastPopped.type = "nil")
            THEN [after EXCEPT !.pc = "panic", !.exit = "panic",
                     !.log = Append(@, [ev |-> "panic", line |-> repl.n, shared |-> shared])]
            ELSE IF machine.err # NoError
            THEN [after EXCEPT !.pc = "read",
                     !.out = Append(@, <<"Woops! Executing bytecode failed:", machine.err>>),
                     !.log = Append(@, [ev |-> "run failed", line |-> repl.n,
                                        shared |-> shared])]
            ELSE [after EXCEPT !.pc = "read",
                     !.out = Append(@, lastPopped),
                     !.bound = Override(@, Bindings(started[1], repl.symbolTable[1],
                                                    machine.globals)),
                     !.log = Append(@, [ev |-> "printed", line |-> repl.n,
                                        shared |-> shared])]
    /\ UNCHANGED <<compiler, run, firstRun, parse, str, lex>>

NextRepl == ReplRead \/ ReplParse \/ ReplCompile \/ ReplCompiled \/ ReplRun

SpecRepl == InitRepl /\ [][NextRepl]_vars

(***************************************************************************)
(* The tree of a node: its children in path order, the node at a path.     *)
(***************************************************************************)
Children(node) ==
    CASE node.kind \in {"Program", "BlockStatement"} -> node.Statements
      [] node.kind = "ExpressionStatement" -> <<node.Expression>>
      [] node.kind = "LetStatement" -> <<node.Value>>
      [] node.kind = "ReturnStatement" -> <<node.ReturnValue>>
      [] node.kind = "PrefixExpression" -> <<node.Right>>
      [] node.kind = "InfixExpression" -> <<node.Left, node.Right>>
      [] node.kind = "IfExpression" ->
            <<node.Condition, node.Consequence, node.Alternative>>
      [] node.kind = "FunctionLiteral" -> <<node.Body>>
      [] node.kind = "CallExpression" -> <<node.Function>> \o node.Arguments
      [] node.kind = "ArrayLiteral" -> node.Elements
      [] node.kind = "HashLiteral" ->
            [i \in 1 .. 2 * Len(node.Pairs) |->
                IF i % 2 = 1 THEN node.Pairs[(i + 1) \div 2].key
                ELSE node.Pairs[i \div 2].value]
      [] node.kind = "IndexExpression" -> <<node.Left, node.Index>>
      [] OTHER -> <<>>

RECURSIVE NodeAt(_, _)
NodeAt(node, path) ==
    IF path = <<>> THEN node ELSE NodeAt(Children(node)[Head(path)], Tail(path))

\* a tree the parser returns with no error: no nil node but the absent
\* alternative of an if-expression
RECURSIVE NoNil(_)
NoNil(node) ==
    /\ node.kind # "nil"
    /\ \A i \in 1 .. Len(Children(node)) :
          \/ node.kind = "IfExpression" /\ i = 3 /\ Children(node)[i].kind = "nil"
          \/ NoNil(Children(node)[i])

(***************************************************************************)
(* The history of a compilation.                                           *)
(***************************************************************************)
Called(path) == \E k \in 1 .. Len(trace) : trace[k].ev = "call" /\ trace[k].path = path
CallPos(path) == CHOOSE k \in 1 .. Len(trace) : trace[k].ev = "call" /\ trace[k].path = path
Returned(path) ==
    \E k \in 1 .. Len(trace) : trace[k].ev = "return" /\ trace[k].path = path
ReturnPos(path) ==
    CHOOSE k \in 1 .. Len(trace) : trace[k].ev = "return" /\ trace[k].path = path

\* the call on child i returned before the call on child j was made
Before(path, i, j) ==
    /\ Returned(Append(path, i))
    /\ ReturnPos(Append(path, i)) < CallPos(Append(path, j))

Failed == \E k \in 1 .. Len(trace) : trace[k].err # NoErr
\* the first return with an error: the call that made the error
FailPos == CHOOSE k \in 1 .. Len(trace) :
              trace[k].err # NoErr /\ \A j \in 1 .. k - 1 : trace[j].err = NoErr

\* the length of the longest common prefix of two paths
RECURSIVE Common(_, _)
Common(p, q) ==
    IF p = <<>> \/ q = <<>> \/ Head(p) # Head(q) THEN 0
    ELSE 1 + Common(Tail(p), Tail(q))

\* p lies after q in the source text: neither contains the other, and p
\* branches off to the right of q
SourceAfter(p, q) ==
    LET k == Common(p, q)
    IN k < Len(p) /\ k < Len(q) /\ p[k + 1] > q[k + 1]

(***************************************************************************)
(* The stack effect of the opcodes (the catalogue of the instruction set): *)
(* what an instruction pops and what it pushes.                            *)
(***************************************************************************)
Pops(op, operands) ==
    CASE op \in {OpAdd, OpSub, OpMul, OpDiv, OpEqual, OpNotEqual, OpGreaterThan,
                 OpIndex} -> 2
      [] op \in {OpPop, OpMinus, OpBang, OpJumpNotTruthy, OpSetGlobal, OpSetLocal,
                 OpReturnValue} -> 1
      [] op \in {OpArray, OpHash} -> operands[1]
      [] op = OpCall -> operands[1] + 1
      [] op = OpClosure -> operands[2]
      [] OTHER -> 0

Pushes(op) ==
    IF op \in {OpPop, OpJumpNotTruthy, OpJump, OpSetGlobal, OpSetLocal,
               OpReturnValue, OpReturn}
    THEN 0 ELSE 1

\* the stack pointer once sp went below 0
Underflow == 0 - 1

\* the values sp can have when execution that starts at offset ip with sp
\* values on the stack reaches offset stop, over both outcomes of every
\* OpJumpNotTruthy; a return leaves the frame and reaches nothing
RECURSIVE Run(_, _, _, _)
Run(ins, ip, stop, sp) ==
    IF ip = stop THEN {sp}
    ELSE IF ip > stop \/ ip >= Len(ins) THEN {}
    ELSE LET op == ins[ip + 1]
             r == ReadOperands(op, SliceFrom(ins, ip + 1))
             next == ip + 1 + r.read
             after == sp - Pops(op, r.operands) + Pushes(op)
         IN IF sp < Pops(op, r.operands) THEN {Underflow}
            ELSE IF op \in {OpReturnValue, OpReturn} THEN {}
            ELSE IF op = OpJump THEN Run(ins, r.operands[1], stop, after)
            ELSE IF op = OpJumpNotTruthy
            THEN Run(ins, next, stop, after) \cup Run(ins, r.operands[1], stop, after)
            ELSE Run(ins, next, stop, after)

\* the offsets at which an instruction of ins starts, and its length
RECURSIVE Boundaries(_, _)
Boundaries(ins, ip) ==
    IF ip >= Len(ins) THEN {Len(ins)}
    ELSE {ip} \cup Boundaries(ins, ip + InstructionLen(ins[ip + 1]))


(***************************************************************************)
(* C1.  Make and ReadOperands are mutually inverse on every instruction    *)
(* the compiler emits: in a compilation that succeeded, decoding the       *)
(* operand bytes of each emitted instruction gives back the operands that  *)
(* were handed to emit and reads exactly the operand bytes, and encoding   *)
(* the decoded operands again gives the same bytes.                        *)
(***************************************************************************)
MakeReadOperandsInverse ==
    (phase = "done" /\ ret = NoErr) =>
        \A k \in 1 .. Len(comp.emitted) :
            LET e == comp.emitted[k]
                r == ReadOperands(e.op, SliceFrom(e.ins, 1))
            IN /\ r.operands = e.operands
               /\ r.read = Len(e.ins) - 1
               /\ Make(e.op, r.operands) = e.ins

(***************************************************************************)
(* C2.  The bytecode of every if-expression that compiled leaves exactly   *)
(* one more value on the stack than it found, on every branch that         *)
(* reaches its end.                                                        *)
(***************************************************************************)
IfLeavesOneValue ==
    \A k \in 1 .. Len(ifDone) :
        \A sp \in Run(ifDone[k].instructions, ifDone[k].start, ifDone[k].end, 0) :
            sp = 1

(***************************************************************************)
(* C3.  Executing the top-level bytecode of a program that parsed without  *)
(* errors and compiled ends with an empty stack, and sp never goes below   *)
(* 0 on the way.                                                           *)
(***************************************************************************)
StackEmptyAtEnd ==
    (phase = "done" /\ ret = NoErr /\ ast.kind = "Program" /\ NoNil(ast)) =>
        \A sp \in Run(currentInstructions(comp), 0, Len(currentInstructions(comp)), 0) :
            sp = 0

(***************************************************************************)
(* C4.  Operand code is emitted in source order for call arguments, array  *)
(* elements and the operands of every infix operator but "<": the call on  *)
(* an operand is made only after the call on every operand to its left     *)
(* returned.  For "<" the right operand is compiled first, then the left,  *)
(* and the one instruction emitted after them is OpGreaterThan.            *)
(***************************************************************************)
OperandOrder ==
    \A k \in 1 .. Len(trace) :
        LET p == trace[k].path
            node == NodeAt(ast, p)
            n == Len(Children(node))
        IN trace[k].ev = "call" =>
            /\ node.kind \in {"CallExpression", "ArrayLiteral"} =>
                  \A i, j \in 1 .. n :
                      i < j /\ Called(Append(p, j)) => Before(p, i, j)
            /\ node.kind = "InfixExpression" /\ node.Operator # "<" =>
                  (Called(Append(p, 2)) => Before(p, 1, 2))
            /\ node.kind = "InfixExpression" /\ node.Operator = "<" =>
                  /\ Called(Append(p, 1)) => Before(p, 2, 1)
                  /\ Returned(p) /\ trace[ReturnPos(p)].err = NoErr =>
                        /\ trace[ReturnPos(p)].n = trace[ReturnPos(Append(p, 1))].n + 1
                        /\ comp.emitted[trace[ReturnPos(p)].n].op = OpGreaterThan

\* a "<" and a call of three arguments compiled to their end
OperandOrderWitness ==
    /\ phase = "done"
    /\ ret = NoErr
    /\ \E k \in 1 .. Len(trace) :
          LET node == NodeAt(ast, trace[k].path)
          IN /\ trace[k].ev = "return"
             /\ \/ node.kind = "InfixExpression" /\ node.Operator = "<"
                \/ node.kind = "CallExpression" /\ Len(node.Arguments) = 3

(***************************************************************************)
(* C5 as claimed.  Once a call of Compile fails, the top-level call        *)
(* returns that error, and no node that comes after the failing node in    *)
(* the source text was compiled.                                           *)
(***************************************************************************)
ErrorStopsSourceOrder ==
    Failed =>
        /\ phase = "done" => ret = trace[FailPos].err
        /\ \A k \in 1 .. Len(trace) :
              trace[k].ev = "call" => ~SourceAfter(trace[k].path, trace[FailPos].path)

(***************************************************************************)
(* C5 as amended.  Once a call of Compile fails, every enclosing call      *)
(* returns that same error at once: nothing is compiled or emitted after   *)
(* the failure, and the top-level call returns the error.  A node that     *)
(* comes after the failing node in the source text was compiled only if    *)
(* the compiler visits it first: it is in the right operand of a "<" whose *)
(* left operand holds the failing node, or it is in another pair of the    *)
(* hash literal that holds the failing node.                               *)
(***************************************************************************)
ErrorStopsCompile ==
    Failed =>
        LET fail == trace[FailPos]
        IN /\ phase = "done" => ret = fail.err
           /\ \A k \in FailPos .. Len(trace) :
                 trace[k].ev = "return" /\ trace[k].err = fail.err /\ trace[k].n = fail.n
           /\ Len(comp.emitted) = fail.n
           /\ \A k \in 1 .. Len(trace) :
                 trace[k].ev = "call" /\ SourceAfter(trace[k].path, fail.path) =>
                    LET c == Common(trace[k].path, fail.path)
                        node == NodeAt(ast, SubSeq(fail.path, 1, c))
                    IN \/ node.kind = "HashLiteral"
                       \/ /\ node.kind = "InfixExpression"
                          /\ node.Operator = "<"
                          /\ fail.path[c + 1] = 1

\* the first of several statements failed, and the top-level call returned
ErrorStopsCompileWitness ==
    /\ phase = "done"
    /\ ret # NoErr
    /\ ast.kind = "Program"
    /\ Len(ast.Statements) > 1
    /\ ~Called(<<Len(ast.Statements)>>)

(***************************************************************************)
(* C6.  Compiling a hash literal is deterministic: a second compilation    *)
(* of the same node gives the same instructions and the same constants as  *)
(* the first, whatever the iteration order of Pairs; the keys are compiled *)
(* in ascending order of String(), and the operand of OpHash is twice the  *)
(* number of pairs.                                                        *)
(***************************************************************************)
HashLiteralDeterministic ==
    /\ (run = 2 /\ phase = "done") =>
          Bytecode(comp) = firstRun.code /\ ret = firstRun.err
    /\ \A d \in 1 .. Len(todo) :
          LET f == todo[d]
          IN f.node.kind = "HashLiteral" /\ f.pc > 0 =>
                \A i, j \in 1 .. Len(f.keys) :
                    i < j => ~KeyLess(f.node.Pairs, f.keys[j], f.keys[i])
    /\ \A k \in 1 .. Len(trace) :
          LET node == NodeAt(ast, trace[k].path)
          IN trace[k].ev = "return" /\ trace[k].err = NoErr /\ node.kind = "HashLiteral" =>
                /\ comp.emitted[trace[k].n].op = OpHash
                /\ comp.emitted[trace[k].n].operands = <<2 * Len(node.Pairs)>>

(***************************************************************************)
(* C10.  After an if-expression compiled, the operand of its               *)
(* OpJumpNotTruthy is the offset of the first instruction after its        *)
(* OpJump, the operand of its OpJump is the length of the buffer at the    *)
(* end of the alternative, neither is the placeholder, and both targets    *)
(* are instruction boundaries of the buffer; the bytes of the              *)
(* if-expression stay as they are until the top-level call returns.        *)
(***************************************************************************)
JumpsPatched ==
    \A k \in 1 .. Len(ifDone) :
        LET r == ifDone[k]
            ins == r.instructions
        IN /\ ins[r.jumpNotTruthyPos + 1] = OpJumpNotTruthy
           /\ ins[r.jumpPos + 1] = OpJump
           /\ ReadUint16(ins, r.jumpNotTruthyPos + 1) = r.jumpPos + InstructionLen(OpJump)
           /\ ReadUint16(ins, r.jumpPos + 1) = r.end
           /\ r.end = Len(ins)
           /\ ReadUint16(ins, r.jumpNotTruthyPos + 1) # Placeholder
           /\ ReadUint16(ins, r.jumpPos + 1) # Placeholder
           /\ {r.jumpPos + InstructionLen(OpJump), r.end} \subseteq Boundaries(ins, 0)
           /\ (~r.hasAlternative) => ins[r.jumpPos + InstructionLen(OpJump) + 1] = OpNull
           /\ (phase = "done" /\ ret = NoErr /\ r.scope = 0) =>
                 SubSeq(currentInstructions(comp), r.start + 1, r.end)
                    = SubSeq(ins, r.start + 1, r.end)

\* an if-expression without an alternative nested in the consequence of
\* one with an alternative, both compiled
JumpsPatchedWitness ==
    /\ phase = "done"
    /\ ret = NoErr
    /\ \E i, j \in 1 .. Len(ifDone) :
          /\ ifDone[j].path = ifDone[i].path \o <<2, 1, 1>>
          /\ ifDone[i].hasAlternative
          /\ ~ifDone[j].hasAlternative

(***************************************************************************)
(* C9.  In every tree ParseProgram returns, a FunctionLiteral has a        *)
(* non-empty Name if and only if it is the value of a LetStatement, and    *)
(* then its Name is the value of the statement's target identifier; a      *)
(* function literal in any other place has the empty Name.                 *)
(***************************************************************************)
\* name is the target of the let whose value node is, "" when node is not
\* the value of a let
RECURSIVE NamesSet(_, _)
NamesSet(node, name) ==
    /\ node.kind = "FunctionLiteral" => node.Name = name
    /\ node.kind = "LetStatement" => node.Name.Value # ""
    /\ \A i \in 1 .. Len(Children(node)) :
          NamesSet(Children(node)[i],
                   IF node.kind = "LetStatement" THEN node.Name.Value ELSE "")

FunctionNameIffLetValue == parse.done => NamesSet(parse.result.program, "")

\* the function literals of a tree, each with whether it is a let's value
RECURSIVE Literals(_, _)
Literals(node, isValue) ==
    (IF node.kind = "FunctionLiteral" THEN {[Name |-> node.Name, value |-> isValue]}
     ELSE {})
    \cup UNION {Literals(Children(node)[i], node.kind = "LetStatement") :
                   i \in 1 .. Len(Children(node))}

\* a parse without errors of a let whose value is a function literal that
\* holds another function literal
FunctionNameWitness ==
    /\ parse.done
    /\ parse.result.errors = <<>>
    /\ \E a, b \in Literals(parse.result.program, FALSE) :
          a.value /\ a.Name = "f" /\ ~b.value /\ b.Name = ""

(***************************************************************************)
(* C7.  In the REPL loop a line whose parse reports errors is never        *)
(* compiled or executed, leaves the shared symbol table, constants and     *)
(* globals as they were, and is followed by reading the next line; the     *)
(* loop ends only when the input reaches EOF.                              *)
(***************************************************************************)
\* the events of the log that belong to compiling or executing a line
Worked == {"compile", "compile failed", "run", "run failed", "printed", "panic"}

ParseErrorsSkipLine ==
    /\ \A i \in 1 .. Len(repl.log) :
          repl.log[i].ev = "parser errors" =>
             /\ \A j \in 1 .. Len(repl.log) :
                   repl.log[j].line = repl.log[i].line => repl.log[j].ev \notin Worked
             /\ repl.log[i].shared = repl.log[i - 1].shared
             /\ i < Len(repl.log) =>
                   /\ repl.log[i + 1].ev \in {"read", "EOF", "error"}
                   /\ repl.log[i + 1].line = repl.log[i].line + 1
                   /\ repl.log[i + 1].shared = repl.log[i].shared
             /\ i = Len(repl.log) => repl.pc = "read" /\ Shared = repl.log[i].shared
    /\ repl.pc \in {"returned", "panic"} => repl.exit = "EOF"

(***************************************************************************)
(* C8.  Across the lines of the REPL one symbol table and one globals      *)
(* store are used for every line, the constant pool handed to each compile *)
(* extends every pool handed to a VM before it, and a global bound by a    *)
(* line that compiled and ran successfully is resolved to the same index   *)
(* and read back by every later line.                                      *)
(***************************************************************************)
\* b is a, possibly with more appended
Extends(a, b) == Len(a) <= Len(b) /\ SubSeq(b, 1, Len(a)) = a

SharedAcrossLines ==
    /\ (repl.pc = "compile" /\ trace = <<FirstCall>>) =>
          /\ comp.symbolTable = repl.symbolTable
          /\ comp.constants = repl.constants
    /\ \A i \in 2 .. Len(repl.log) :
          repl.log[i].ev \in {"read", "compile"} =>
             repl.log[i].shared = repl.log[i - 1].shared
    /\ \A i, j \in 1 .. Len(repl.log) :
          (i < j /\ repl.log[i].ev = "run" /\ repl.log[j].ev = "compile") =>
             Extends(repl.log[i].shared.constants, repl.log[j].shared.constants)
    /\ repl.pc = "read" =>
          \A name \in DOMAIN repl.bound :
             LET r == Resolve(repl.symbolTable, 1, name)
             IN /\ r.ok
                /\ r.sym.Scope = GlobalScope
                /\ r.sym.Index = repl.bound[name].index
                /\ Global(repl.globals, r.sym.Index) = repl.bound[name].value

(***************************************************************************)
(* C11.  The instructions stored in the CompiledFunction constant of a     *)
(* function literal end with OpReturnValue or OpReturn: a trailing OpPop   *)
(* of the body is overwritten in place by OpReturnValue, the length        *)
(* unchanged, and OpReturn is appended exactly when the last instruction   *)
(* is then not OpReturnValue.                                              *)
(***************************************************************************)
\* the offset of the final instruction of a non-empty buffer, by decoding
\* it from its start
LastStart(ins) ==
    CHOOSE b \in Boundaries(ins, 0) :
        b < Len(ins) /\ \A o \in Boundaries(ins, 0) : o < Len(ins) => o <= b

\* the opcode of the final instruction, -1 for the empty buffer
LastOpcode(ins) == IF ins = <<>> THEN -1 ELSE ins[LastStart(ins) + 1]

\* the body of a function literal compiled without error: the case is
\* about to go on after c.Compile(node.Body)
FunctionEnding == Running("FunctionLiteral") /\ Top.pc = 1 /\ ret = NoErr

FunctionEndsWithReturn ==
    [][FunctionEnding =>
          LET body == currentInstructions(comp)
              fn == comp'.constants[Len(comp.constants) + 1]
          IN /\ Len(comp'.constants) = Len(comp.constants) + 1
             /\ fn.type = "COMPILED_FUNCTION_OBJ"
             /\ LastOpcode(fn.ins) \in {OpReturnValue, OpReturn}
             /\ LastOpcode(body) = OpPop =>
                   fn.ins = [body EXCEPT ![LastStart(body) + 1] = OpReturnValue]
             /\ LastOpcode(body) = OpReturnValue => fn.ins = body
             /\ LastOpcode(body) \notin {OpPop, OpReturnValue} =>
                   fn.ins = Append(body, OpReturn)]_vars

\* a compilation that stored a function whose body ends in an if-expression,
\* the OpPop after it replaced by OpReturnValue
FunctionEndsWithReturnWitness ==
    /\ phase = "done"
    /\ ret = NoErr
    /\ \E k \in 1 .. Len(comp.constants) :
          /\ comp.constants[k].type = "COMPILED_FUNCTION_OBJ"
          /\ LastOpcode(comp.constants[k].ins) = OpReturnValue
          /\ \E i \in 1 .. Len(comp.constants[k].ins) :
                comp.constants[k].ins[i] = OpJumpNotTruthy

(***************************************************************************)
(* C12.  OpPop is emitted only by the ExpressionStatement case, exactly    *)
(* once for each expression statement compiled without error, immediately  *)
(* after the code of its expression.  An OpPop leaves a buffer only as the *)
(* last instruction of an if-expression branch (removeLastPop) or of a     *)
(* function body (replaced by OpReturnValue).                              *)
(***************************************************************************)
\* the offsets of the OpPop instructions of a buffer, decoded from its start
PopOffsets(ins) == {b \in Boundaries(ins, 0) : b < Len(ins) /\ ins[b + 1] = OpPop}

\* the returns without error of the calls on expression statements
StatementReturns ==
    {j \in 1 .. Len(trace) :
        /\ trace[j].ev = "return"
        /\ trace[j].err = NoErr
        /\ NodeAt(ast, trace[j].path).kind = "ExpressionStatement"}

\* the buffer of the scope current before a step, as it is after the step;
\* the instructions of the function stored when the step leaves the scope
BufferAfter ==
    IF FunctionEnding THEN comp'.constants[Len(comp.constants) + 1].ins
    ELSE comp'.scopes[comp.scopeIndex + 1].instructions

PopPerStatement ==
    /\ [](phase \in {"compile", "done"} =>
            /\ {k \in 1 .. Len(comp.emitted) : comp.emitted[k].op = OpPop}
                  = {trace[j].n : j \in StatementReturns}
            /\ \A i, j \in StatementReturns : trace[i].n = trace[j].n => i = j
            /\ \A j \in StatementReturns :
                  /\ trace[j - 1].ev = "return"
                  /\ trace[j - 1].path = Append(trace[j].path, 1)
                  /\ trace[j - 1].n = trace[j].n - 1)
    /\ [][phase = "compile" =>
             LET before == currentInstructions(comp)
             IN /\ PopOffsets(BufferAfter) \ PopOffsets(before) # {} =>
                      /\ Running("ExpressionStatement")
                      /\ BufferAfter = Append(before, OpPop)
                /\ PopOffsets(before) \ PopOffsets(BufferAfter) # {} =>
                      /\ Running("IfExpression") \/ FunctionEnding
                      /\ PopOffsets(before) \ PopOffsets(BufferAfter)
                            = {LastStart(before)}]_vars

\* a finished compilation of statements in which an if-expression branch
\* lost its OpPop and other statements kept theirs
PopPerStatementWitness ==
    /\ phase = "done"
    /\ ret = NoErr
    /\ ifDone # <<>>
    /\ PopOffsets(currentInstructions(comp)) # {}
    /\ Cardinality(PopOffsets(currentInstructions(comp)))
          < Cardinality({k \in 1 .. Len(comp.emitted) :
                            comp.emitted[k].op = OpPop /\ comp.emitted[k].scope = 0})

(***************************************************************************)
(* C13.  The LetStatement case defines the name before it compiles the     *)
(* value, so the name resolves while the value is compiled; after the      *)
(* value it emits OpSetGlobal when the defined symbol has the global       *)
(* scope and OpSetLocal otherwise, with the index of that symbol.          *)
(***************************************************************************)
\* the let statements whose value is being compiled
LetFrames == {k \in 1 .. Len(todo) : todo[k].node.kind = "LetStatement" /\ todo[k].pc = 1}

RECURSIVE EmittedBytes(_, _, _)
EmittedBytes(emitted, from, to) ==
    IF from > to THEN <<>>
    ELSE emitted[from].ins \o EmittedBytes(emitted, from + 1, to)

ClosureAfterLoads ==
    [][FunctionEnding =>
          LET table == comp.symbolTable[Len(comp.symbolTable)]
              free == table.FreeSymbols
              n == Len(free)
              last == Len(comp'.emitted)
              fn == comp'.constants[Len(comp.constants) + 1]
              outer == comp.scopeIndex - 1
          IN /\ comp'.scopeIndex = outer
             /\ last - n - 1 \in {Len(comp.emitted), Len(comp.emitted) + 1}
             /\ \A k \in Len(comp.emitted) + 1 .. last - n - 1 :
                   comp'.emitted[k].op = OpReturn /\ comp'.emitted[k].scope = outer + 1
             /\ \A i \in 1 .. n :
                   /\ free[i].Scope \in {LocalScope, FreeScope}
                   /\ comp'.emitted[last - n - 1 + i].op
                         = IF free[i].Scope = LocalScope THEN OpGetLocal ELSE OpGetFree
                   /\ comp'.emitted[last - n - 1 + i].operands = <<free[i].Index>>
                   /\ comp'.emitted[last - n - 1 + i].scope = outer
             /\ comp'.emitted[last].op = OpClosure
             /\ comp'.emitted[last].operands = <<Len(comp.constants), n>>
             /\ comp'.emitted[last].scope = outer
             /\ comp'.scopes[outer + 1].instructions
                   = comp.scopes[outer + 1].instructions
                        \o EmittedBytes(comp'.emitted, last - n, last)
             /\ fn.NumParameters = Len(Top.node.Parameters)
             /\ fn.NumLocals = table.numDefinitions
             /\ fn.NumLocals >= fn.NumParameters]_vars

\* a function with two free symbols was closed: one that is a local of the
\* enclosing function and one that is free there too
ClosureAfterLoadsWitness ==
    /\ phase = "done"
    /\ ret = NoErr
    /\ \E k \in 3 .. Len(comp.emitted) :
          /\ comp.emitted[k].op = OpClosure
          /\ comp.emitted[k].operands[2] = 2
          /\ {comp.emitted[k - 1].op, comp.emitted[k - 2].op} = {OpGetLocal, OpGetFree}

(***************************************************************************)
(* C15.  changeOperand(opPos, operand) on the position of an emitted jump  *)
(* changes the operand bytes of that instruction and nothing else: the     *)
(* length of the buffer, the opcode byte at opPos, the bytes outside the   *)
(* instruction, the buffers of the other scopes, lastInstruction and       *)
(* previousInstruction stay as they are.                                   *)
(***************************************************************************)
\* the offsets of the jump instructions of a buffer, decoded from its start
JumpOffsets(ins) ==
    {b \in Boundaries(ins, 0) : b < Len(ins) /\ ins[b + 1] \in {OpJump, OpJumpNotTruthy}}

\* changeOperand(opPos, operand) in state c changed the operand only
OperandOnly(c, after, opPos, operand) ==
    LET ins == currentInstructions(c)
        new == currentInstructions(after)
    IN /\ Len(new) = Len(ins)
       /\ new[opPos + 1] = ins[opPos + 1]
       /\ \A i \in 1 .. Len(ins) : i \notin {opPos + 2, opPos + 3} => new[i] = ins[i]
       /\ ReadUint16(new, opPos + 1) = operand % 65536
       /\ \A k \in 1 .. Len(c.scopes) : k # c.scopeIndex + 1 => after.scopes[k] = c.scopes[k]
       /\ Len(after.scopes) = Len(c.scopes)
       /\ CurrentScope(after).lastInstruction = CurrentScope(c).lastInstruction
       /\ CurrentScope(after).previousInstruction = CurrentScope(c).previousInstruction
       /\ after.scopeIndex = c.scopeIndex
       /\ after.constants = c.constants
       /\ after.symbolTable = c.symbolTable

ChangeOperandFrame ==
    phase \in {"compile", "done"} =>
        \A opPos \in JumpOffsets(currentInstructions(comp)) :
            \A operand \in {0, 7, 258, 65535, 65536, Len(currentInstructions(comp))} :
                OperandOnly(comp, changeOperand(comp, opPos, operand), opPos, operand)

\* inside a function, a jump that changeOperand has patched, with
\* instructions after it
ChangeOperandFrameWitness ==
    /\ phase = "compile"
    /\ comp.scopeIndex > 0
    /\ \E opPos \in JumpOffsets(currentInstructions(comp)) :
          /\ ReadUint16(currentInstructions(comp), opPos + 1) # Placeholder
          /\ opPos + 3 < Len(currentInstructions(comp))

(***************************************************************************)
(* Instructions.String(), one loop iteration per step.  The output is the  *)
(* sequence of the lines written; the error of a failed Lookup is the line *)
(* "ERROR".  A read beyond the end of the slice (ReadUint16 or ReadUint8   *)
(* on a slice too short) panics.                                           *)
(***************************************************************************)
\* bytes of the sequences: opcodes without operand and with operands of
\* one, two and three bytes, and 255, a byte that is no opcode
StringBytes == {OpAdd, OpGetFree, OpConstant, OpClosure, 255}

RECURSIVE ByteSequences(_)
ByteSequences(n) ==
    IF n = 0 THEN {<<>>}
    ELSE ByteSequences(n - 1)
            \cup {Append(q, b) : q \in {x \in ByteSequences(n - 1) : Len(x) = n - 1},
                                  b \in StringBytes}

InitString ==
    /\ str \in {[ins |-> q, i |-> 0, out |-> <<>>, pc |-> "loop"] : q \in ByteSequences(MaxBytes)}
    /\ lex = <<>>
    /\ parse = <<>>
    /\ repl = <<>>
    /\ ast = NilNode
    /\ comp = New
    /\ todo = <<>>
    /\ ret = NoErr
    /\ trace = <<>>
    /\ ifDone = <<>>
    /\ phase = "string"
    /\ run = 0
    /\ firstRun = [code |-> NoBytecode, err |-> NoErr]

\* one iteration of for i < len(ins)
StringIteration ==
    /\ phase = "string"
    /\ str.pc = "loop"
    /\ str.i < Len(str.ins)
    /\ Len(str.out) < MaxOut
    /\ LET op == str.ins[str.i + 1]
           rest == SliceFrom(str.ins, str.i + 1)
       IN IF ~Lookup(op)
          THEN \* the error is written and the loop continues, i as it was
               str' = [str EXCEPT !.out = Append(@, "ERROR")]
          ELSE IF Len(rest) < InstructionLen(op) - 1
          THEN str' = [str EXCEPT !.pc = "panic"]
          ELSE str' = [str EXCEPT
                          !.out = Append(@, <<str.i, op, ReadOperands(op, rest).operands>>),
                          !.i = @ + 1 + ReadOperands(op, rest).read]
    /\ UNCHANGED <<ast, comp, todo, ret, trace, ifDone, phase, run, firstRun, parse, repl, lex>>

\* the loop condition fails: return out.String()
StringReturn ==
    /\ phase = "string"
    /\ str.pc = "loop"
    /\ str.i >= Len(str.ins)
    /\ str' = [str EXCEPT !.pc = "done"]
    /\ UNCHANGED <<ast, comp, todo, ret, trace, ifDone, phase, run, firstRun, parse, repl, lex>>

NextString == StringIteration \/ StringReturn

SpecString == InitString /\ [][NextString]_vars

(***************************************************************************)
(* C16.  Instructions.String() terminates for every finite byte sequence,  *)
(* also one with a byte that is no defined opcode: every iteration of its  *)
(* loop moves the read position forward.                                   *)
(***************************************************************************)
StringAdvances ==
    [][(str.pc = "loop" /\ str'.pc = "loop") => str'.i > str.i]_vars

(***************************************************************************)
(* C17.  A REPL line that fails to compile leaves the shared symbol table  *)
(* as it was before the line.                                              *)
(***************************************************************************)
FailedCompileKeepsTable ==
    phase = "idle" =>
        \A k \in 2 .. Len(repl.log) :
            repl.log[k].ev = "compile failed" =>
                /\ repl.log[k - 1].ev = "compile"
                /\ repl.log[k].shared.symbolTable = repl.log[k - 1].shared.symbolTable

(***************************************************************************)
(* C18.  When a top-level Compile call returns, with or without an error,  *)
(* the scopes and the symbol table are positioned as when the call         *)
(* started: scopeIndex is the same, len(scopes) = scopeIndex + 1 and       *)
(* symbolTable is the same table.  The call starts on a compiler made by   *)
(* New or NewWithState: scopeIndex 0, one scope, the outermost table.      *)
(***************************************************************************)
ScopesRestored ==
    phase = "done" =>
        /\ comp.scopeIndex = 0
        /\ Len(comp.scopes) = comp.scopeIndex + 1
        /\ Len(comp.symbolTable) = 1

(***************************************************************************)
(* C19.  In every scope, after every emit, removeLastPop,                  *)
(* replaceLastPopWithReturn and changeOperand that Compile performs: if    *)
(* the buffer of the scope is not empty, lastInstruction.Position is the   *)
(* offset at which the final instruction of the buffer starts and          *)
(* lastInstruction.Opcode is the byte stored there.                        *)
(***************************************************************************)
LastInstructionIsLast ==
    phase \in {"compile", "done"} =>
        \A k \in 1 .. Len(comp.scopes) :
            comp.scopes[k].instructions # <<>> =>
                /\ comp.scopes[k].lastInstruction.Position
                      = LastStart(comp.scopes[k].instructions)
                /\ comp.scopes[k].lastInstruction.Opcode
                      = comp.scopes[k].instructions[
                            comp.scopes[k].lastInstruction.Position + 1]

\* an if-expression compiled alone: removeLastPop on its alternative was
\* the last change of the buffer
LastInstructionIsLastWitness ==
    /\ phase = "done"
    /\ ret = NoErr
    /\ ast.kind = "IfExpression"
    /\ ast.Alternative # NilNode
    /\ currentInstructions(comp) # <<>>
    /\ comp.emitted[Len(comp.emitted)].op = OpPop
    /\ LastOpcode(currentInstructions(comp)) # OpPop

(***************************************************************************)
(* The lexer on the characters.  The input is the sequence of the bytes of *)
(* the text; a literal is the sequence of its bytes.                       *)
(***************************************************************************)
readChar(l) ==
    [l EXCEPT !.ch = IF l.readPosition >= Len(l.input) THEN 0
                     ELSE l.input[l.readPosition + 1],
              !.position = l.readPosition,
              !.readPosition = @ + 1]

peekChar(l) == IF l.readPosition >= Len(l.input) THEN 0 ELSE l.input[l.readPosition + 1]

\* lexer.New(input), on the bytes
NewLexer(input) ==
    readChar([input |-> input, position |-> 0, readPosition |-> 0, ch |-> 0])

newToken(tokenType, ch) == Token(tokenType, <<ch>>)

isLetter(ch) == (97 <= ch /\ ch <= 122) \/ (65 <= ch /\ ch <= 90) \/ ch = 95
isDigit(ch) == 48 <= ch /\ ch <= 57

\* ' ', '\t', '\n' and '\r'
RECURSIVE skipWhitespace(_)
skipWhitespace(l) == IF l.ch \in {32, 9, 10, 13} THEN skipWhitespace(readChar(l)) ELSE l

\* l.input[from:to]; a slice out of range panics
Slice(input, from, to) ==
    IF from <= to /\ to <= Len(input) THEN SubSeq(input, from + 1, to) ELSE <<"panic">>

\* for { l.readChar(); if l.ch == '"' || l.ch == 0 { break } }
RECURSIVE StringLoop(_)
StringLoop(l) == IF readChar(l).ch \in {34, 0} THEN readChar(l) ELSE StringLoop(readChar(l))

\* the lexer after the loop and the literal
Literal(l, from, after) == [l |-> after, lit |-> Slice(l.input, from, after.position)]

readString(l) == Literal(l, l.position + 1, StringLoop(l))

RECURSIVE IdentifierLoop(_)
IdentifierLoop(l) == IF isLetter(l.ch) THEN IdentifierLoop(readChar(l)) ELSE l

readIdentifier(l) == Literal(l, l.position, IdentifierLoop(l))

RECURSIVE NumberLoop(_)
NumberLoop(l) == IF isDigit(l.ch) THEN NumberLoop(readChar(l)) ELSE l

readNumber(l) == Literal(l, l.position, NumberLoop(l))

\* the bytes of a lexeme of the model
Text(w) ==
    CASE w = "let" -> <<108, 101, 116>>
      [] w = "fn" -> <<102, 110>>
      [] w = "true" -> <<116, 114, 117, 101>>
      [] w = "false" -> <<102, 97, 108, 115, 101>>
      [] w = "if" -> <<105, 102>>
      [] w = "else" -> <<101, 108, 115, 101>>
      [] w = "return" -> <<114, 101, 116, 117, 114, 110>>
      [] w = "a" -> <<97>>
      [] w = "b" -> <<98>>
      [] w = "f" -> <<102>>
      [] w = "g" -> <<103>>
      [] w = "x" -> <<120>>
      [] w = "y" -> <<121>>
      [] w = "0" -> <<48>>
      [] w = "1" -> <<49>>
      [] w = "2" -> <<50>>
      [] w = "3" -> <<51>>
      [] w = "08" -> <<48, 56>>
      [] w = "@" -> <<64>>
      [] w = "=" -> <<61>>
      [] w = "+" -> <<43>>
      [] w = "-" -> <<45>>
      [] w = "!" -> <<33>>
      [] w = "*" -> <<42>>
      [] w = "/" -> <<47>>
      [] w = "<" -> <<60>>
      [] w = ">" -> <<62>>
      [] w = "==" -> <<61, 61>>
      [] w = "!=" -> <<33, 61>>
      [] w = "," -> <<44>>
      [] w = ";" -> <<59>>
      [] w = ":" -> <<58>>
      [] w = "(" -> <<40>>
      [] w = ")" -> <<41>>
      [] w = "{" -> <<123>>
      [] w = "}" -> <<125>>
      [] w = "[" -> <<91>>
      [] w = "]" -> <<93>>
      [] w = "\"a\"" -> <<34, 97, 34>>
      [] w = "\"b\"" -> <<34, 98, 34>>
      [] w = "\"a" -> <<34, 97>>

\* the text of a sequence of lexemes, one space between two of them
RECURSIVE Render(_)
Render(source) ==
    IF source = <<>> THEN <<>>
    ELSE IF Len(source) = 1 THEN Text(source[1])
    ELSE Text(source[1]) \o <<32>> \o Render(Tail(source))

\* token.LookupIdent on the bytes of an identifier
LookupIdentText(lit) ==
    IF \E w \in DOMAIN keywords : Text(w) = lit
    THEN keywords[CHOOSE w \in DOMAIN keywords : Text(w) = lit]
    ELSE "IDENT"

\* the cases of one character: the byte and the token type
OneCharTokens ==
    {<<43, "+">>, <<45, "-">>, <<47, "/">>, <<42, "*">>, <<60, "<">>, <<62, ">">>,
     <<59, ";">>, <<40, "(">>, <<41, ")">>, <<44, ",">>, <<123, "{">>, <<125, "}">>,
     <<91, "[">>, <<93, "]">>, <<58, ":">>}

\* the token, and l.readChar() before the return at the end of NextToken
Read(l, tok) == [l |-> readChar(l), tok |-> tok]

\* the early return of an identifier or a number
ReadLiteral(r, type) == [l |-> r.l, tok |-> Token(type, r.lit)]

\* the switch of NextToken, after skipWhitespace
NextTokenSwitch(l) ==
    IF l.ch \in {61, 33}
    THEN IF peekChar(l) = 61
         THEN Read(readChar(l), Token(IF l.ch = 61 THEN "==" ELSE "!=", <<l.ch, 61>>))
         ELSE Read(l, newToken(IF l.ch = 61 THEN "=" ELSE "!", l.ch))
    ELSE IF \E c \in OneCharTokens : c[1] = l.ch
    THEN Read(l, newToken((CHOOSE c \in OneCharTokens : c[1] = l.ch)[2], l.ch))
    ELSE IF l.ch = 34
    THEN Read(readString(l).l, Token("STRING", readString(l).lit))
    ELSE IF l.ch = 0
    THEN Read(l, Token("EOF", <<>>))
    ELSE IF isLetter(l.ch)
    THEN ReadLiteral(readIdentifier(l), LookupIdentText(readIdentifier(l).lit))
    ELSE IF isDigit(l.ch)
    THEN ReadLiteral(readNumber(l), "INT")
    ELSE Read(l, newToken("ILLEGAL", l.ch))

\* NextToken() on the bytes: the lexer after the call and the token
NextTokenOfText(l) == NextTokenSwitch(skipWhitespace(l))

\* the characters of the arbitrary texts: NUL, space, the quote, '=', '!',
\* a digit, two letters and a character without a case
TextChars == {0, 32, 34, 61, 33, 49, 102, 110, 64}

RECURSIVE Texts(_)
Texts(n) ==
    IF n = 0 THEN {<<>>}
    ELSE Texts(n - 1) \cup {Append(t, c) : t \in {x \in Texts(n - 1) : Len(x) = n - 1},
                                          c \in TextChars}

\* a lexer made on a text, with the history of its NextToken calls: each
\* token with whether the call began at the end of the text
LexerOn(text) == [l |-> NewLexer(text), tokens |-> <<>>, ended |-> 0]

\* the text of a source of the parser, or an arbitrary text and no source
InitLexer ==
    /\ parse \in {[source |-> src, done |-> FALSE, result |-> NotParsed] :
                     src \in Sources \cup {<<>>}}
    /\ lex \in {LexerOn(Render(parse.source))}
                \cup (IF parse.source = <<>> THEN {LexerOn(t) : t \in Texts(MaxInput)}
                      ELSE {})
    /\ ast = NilNode
    /\ comp = New
    /\ todo = <<>>
    /\ ret = NoErr
    /\ trace = <<>>
    /\ ifDone = <<>>
    /\ phase = "parse"
    /\ run = 0
    /\ firstRun = [code |-> NoBytecode, err |-> NoErr]
    /\ repl = <<>>
    /\ str = <<>>

\* one call of NextToken
LexNextToken ==
    /\ phase = "parse"
    /\ lex.ended < MaxEOF
    /\ lex' = [l |-> NextTokenOfText(lex.l).l,
               tokens |-> Append(lex.tokens,
                                 [tok |-> NextTokenOfText(lex.l).tok,
                                  ended |-> lex.l.position >= Len(lex.l.input)]),
               ended |-> IF lex.l.position >= Len(lex.l.input) THEN lex.ended + 1
                         ELSE lex.ended]
    /\ UNCHANGED <<ast, comp, todo, ret, trace, ifDone, phase, run, firstRun, parse, repl, str>>

\* the source is parsed once the text has been read to its end
ParseText ==
    /\ lex.ended >= MaxEOF
    /\ Parse

NextLexer == LexNextToken \/ ParseText

SpecLexer == InitLexer /\ [][NextLexer]_vars

(***************************************************************************)
(* C20.  For every finite input the lexer returns EOF on every NextToken   *)
(* call once the end of the input has been reached, also after a string    *)
(* literal without its closing quote, and ParseProgram terminates: every   *)
(* iteration of a loop of the parser (ParseProgram, parseBlockStatement,   *)
(* parseHashLiteral, parseExpressionList, parseFunctionParameters,         *)
(* parseExpression) moves the parser on in the token stream, or the loop   *)
(* exits, also on an input that ends early.  The tokens the parser reads   *)
(* are the ones NextToken cuts from the text.                              *)
(***************************************************************************)
\* the token the parser's lexer makes of a lexeme, its literal as bytes
LexemeOfText(w) ==
    Token(Lexeme(w).Type,
          IF w \in DOMAIN StringLexemes THEN Text(StringLexemes[w]) ELSE Text(w))

LexerAndParserEnd ==
    /\ \A k \in 1 .. Len(lex.tokens) :
          lex.tokens[k].ended => lex.tokens[k].tok = Token("EOF", <<>>)
    /\ lex.l.input = Render(parse.source) =>
          \A k \in 1 .. Len(lex.tokens) :
             lex.tokens[k].tok = IF k <= Len(parse.source)
                                 THEN LexemeOfText(parse.source[k])
                                 ELSE Token("EOF", <<>>)
    /\ parse.done => ~parse.result.stuck /\ parse.result.atEnd

\* a let of an if-expression whose block the end of the text cuts off inside
\* a string literal: the lexer gave the string and then EOF twice, and the
\* parser returned with errors
LexerAndParserEndWitness ==
    /\ parse.done
    /\ Len(parse.source) > 8
    /\ parse.source[8] = "{"
    /\ parse.source[Len(parse.source)] = "\"a"
    /\ parse.result.errors # <<>>
    /\ Len(lex.tokens) = Len(parse.source) + 2
    /\ lex.tokens[Len(parse.source)].tok.Type = "STRING"
    /\ lex.tokens[Len(lex.tokens)].tok.Type = "EOF"

====
